---- MODULE Spec2Model ----
(***************************************************************************)
(* Model of casperfpga's RFDC helper class (src/src/rfdc.py).              *)
(*                                                                         *)
(* Every public method of RFDC is one action.  A method is an operator     *)
(* from its arguments and the transport's answers (a "script": the i-th    *)
(* call the method makes on the transport gets script[i]) to the requests  *)
(* it issued and its outcome: a returned value or a raised exception.      *)
(* The client thread is either between calls (call = NoCall) or has just   *)
(* come back from one (call records it); Resume takes it back.             *)
(*                                                                         *)
(* Text is a sequence of lexemes: a word, or one of the separators " ",    *)
(* ",", ":", ".", "/".  str.split, int(), float(), str.lower and           *)
(* os.path.basename are computed on that form.  print() is not modelled.   *)
(***************************************************************************)
EXTENDS Integers, Sequences, FiniteSets, TLC

VARIABLES
  call,           \* the method call the client has just come back from
  has_report,     \* TRUE once the attribute self.mts_report exists
  mts_report,     \* self.mts_report
  peer,           \* settings stored by the echoing peer (SpecEcho)
  prev,           \* the call before this one (SpecEcho)
  other,          \* the attribute mts_report of a second RFDC instance
  threads         \* threads of the caller inside run_mts (SpecThreads)

vars == <<call, has_report, mts_report, peer, prev, other, threads>>

----------------------------------------------------------------------------
(* Bounds of the model *)

\* most ", "-separated items in one inform payload
MaxItems == 2
\* most informs in one reply to rfdc-run-mts or rfdc-status
MaxInforms == 2
\* most file names in one remote listing
MaxListed == 2

----------------------------------------------------------------------------
(* Python values *)

SP == " "
CM == ","
COLON == ":"
DOT == "."
SLASH == "/"

PyNone == [t |-> "None", v |-> <<>>, d |-> {}]
PyBool(b) == [t |-> "bool", v |-> <<IF b THEN "True" ELSE "False">>, d |-> {}]
PyInt(w) == [t |-> "int", v |-> <<w>>, d |-> {}]
PyFloat(w) == [t |-> "float", v |-> <<w>>, d |-> {}]
PyStr(s) == [t |-> "str", v |-> s, d |-> {}]
\* a dict is the set of its items [k, t, v, d]: the key and the value
PyDict(items) == [t |-> "dict", v |-> <<>>, d |-> items]
\* an integer argument
PyNum(n) == PyInt(ToString(n))

Return(val) == [kind |-> "return", val |-> val, err |-> ""]
Raise(e) == [kind |-> "raise", val |-> PyNone, err |-> e]

\* mutant: an entry already present under k is kept
DictSet_keeps_first(items, k, val) ==
  IF \E e \in items : e.k = k THEN items
  ELSE items \cup {[k |-> k, t |-> val.t, v |-> val.v, d |-> val.d]}

\* d[k] = val
DictSet(items, k, val) ==
  {e \in items : e.k # k} \cup {[k |-> k, t |-> val.t, v |-> val.v, d |-> val.d]}

\* if x:
Truthy(x) == x # PyNone /\ x # PyStr(<<>>)

\* the numerals among the words
IntWords == {"0", "1", "2", "15"}
FloatWords == IntWords \cup {"1.5"}

\* int(tok) raises ValueError unless tok is a decimal integer
int_ok(tok) == Len(tok) = 1 /\ tok[1] \in IntWords
int(tok) == PyInt(tok[1])

\* float(tok) raises ValueError unless tok is a number; float("1") is 1.0
float_ok(tok) == Len(tok) = 1 /\ tok[1] \in FloatWords
float(tok) == PyFloat(IF tok[1] \in IntWords THEN tok[1] \o ".0" ELSE tok[1])

\* the conversion an accessor applies to a value token: int(v), float(v) or v
Coerce_ok(T, tok) ==
  CASE T = "int" -> int_ok(tok)
    [] T = "float" -> float_ok(tok)
    [] OTHER -> TRUE
Coerce(T, tok) ==
  CASE T = "int" -> int(tok)
    [] T = "float" -> float(tok)
    [] OTHER -> PyStr(tok)

\* the first index at which sep occurs in s, 0 if none
Find(s, sep) ==
  LET hits == {i \in 1..(Len(s) - Len(sep) + 1) : SubSeq(s, i, i + Len(sep) - 1) = sep}
  IN IF hits = {} THEN 0 ELSE CHOOSE i \in hits : \A j \in hits : i <= j

\* s.split(sep)
RECURSIVE split(_, _)
split(s, sep) ==
  LET i == Find(s, sep)
  IN IF i = 0 THEN <<s>>
     ELSE <<SubSeq(s, 1, i - 1)>> \o split(SubSeq(s, i + Len(sep), Len(s)), sep)

\* os.path.basename(p): what follows the last "/"
basename(p) ==
  LET parts == split(p, <<SLASH>>) IN parts[Len(parts)]

\* plltype.lower()
lower(w) ==
  CASE w = "LMK" -> "lmk"
    [] w = "LMX" -> "lmx"
    [] OTHER -> w

\* l.count(x)
count(l, x) == Cardinality({i \in 1..Len(l) : l[i] = x})

\* s without its first n elements
Drop(s, n) == SubSeq(s, n + 1, Len(s))

DISABLED == <<"(disabled)">>

----------------------------------------------------------------------------
(* The transport: self.parent.transport *)

KatcpRequestFail == "KatcpRequestFail"

\* t.katcprequest(name=nm, request_timeout=t._timeout, request_args=as)
katcprequest(nm, as) == [via |-> "katcprequest", name |-> nm, args |-> as]
\* t.upload_to_flash(fpath, port=port, force_upload=force); the port is random
upload_to_flash(fpath, force) ==
  [via |-> "upload_to_flash", name |-> "", args |-> <<PyStr(fpath), PyBool(force)>>]
\* t.listbof()
listbof == [via |-> "listbof", name |-> "", args |-> <<>>]

\* an answer of the transport: it raised, or it returned (reply, informs)
Fail == [fail |-> TRUE, informs |-> <<>>]
Ok(informs) == [fail |-> FALSE, informs |-> informs]

\* what a method did: the transport calls it made and how it ended
Done(reqs, out) == [reqs |-> reqs, out |-> out]

\* converter types
ADC_TILE == PyInt("0")
DAC_TILE == PyInt("1")

\* "adc" if converter_type == self.ADC_TILE else "dac"
ConvArg(converter_type) ==
  IF converter_type = ADC_TILE THEN PyStr(<<"adc">>) ELSE PyStr(<<"dac">>)

----------------------------------------------------------------------------
(* Decoding of info = informs[0].arguments[0].decode(), as the accessors   *)
(* repeat it                                                               *)

\* if info == "(disabled)": return None; else: return int(info) / float(info)
DecodeExact(T, info) ==
  IF info = DISABLED THEN Return(PyNone)
  ELSE IF Coerce_ok(T, info) THEN Return(Coerce(T, info))
  ELSE Raise("ValueError")

\* info = info.split(' '); if len(info) == 1: return None; return int(info[1])
DecodeScalar(payload) ==
  LET info == split(payload, <<SP>>)
  IN IF Len(info) = 1 THEN Return(PyNone)
     ELSE IF int_ok(info[2]) THEN Return(int(info[2]))
     ELSE Raise("ValueError")

\* info == "(disabled)" where info is a list: a list never equals a str
ListEqStr(l, s) == FALSE

\* info = info.split(' '); x = info[1]; if info == "(disabled)": return None;
\* else: return int(x)
DecodeSecond(payload) ==
  LET info == split(payload, <<SP>>)
  IN IF Len(info) < 2 THEN Raise("IndexError")
     ELSE IF ListEqStr(info, DISABLED) THEN Return(PyNone)
     ELSE IF int_ok(info[2]) THEN Return(int(info[2]))
     ELSE Raise("ValueError")

\* for stat in info: k, v = stat.split(' '); d[k] = T(v)
RECURSIVE DictLoop(_, _, _, _)
DictLoop(T, info, i, d) ==
  IF i > Len(info) THEN Return(PyDict(d))
  ELSE LET kv == split(info[i], <<SP>>)
       IN IF Len(kv) # 2 THEN Raise("ValueError")
          ELSE IF ~Coerce_ok(T, kv[2]) THEN Raise("ValueError")
          ELSE DictLoop(T, info, i + 1, DictSet(d, kv[1], Coerce(T, kv[2])))

\* info = info.split(', '); if len(info) == 1: return {}; the loop; return d
DecodeDict(T, payload) ==
  LET info == split(payload, <<CM, SP>>)
  IN IF Len(info) = 1 THEN Return(PyDict({}))
     ELSE DictLoop(T, info, 1, {})

\* info = info.split(' '); if len(info) == 1: return {}; return {info[0]: info[1]}
DecodePair(payload) ==
  LET info == split(payload, <<SP>>)
  IN IF Len(info) = 1 THEN Return(PyDict({}))
     ELSE Return(PyDict(DictSet({}, info[1], PyStr(info[2]))))

----------------------------------------------------------------------------
(* The methods that make one request.  In each: the request raises        *)
(* KatcpRequestFail, or informs[0] raises IndexError when there is no     *)
(* inform, or the payload is decoded.                                     *)

get_fabric_clk_freq(ntile, converter_type, script) ==
  LET rq == katcprequest("rfdc-get-fab-clk-freq", <<ntile, ConvArg(converter_type)>>)
      r == script[1]
  IN IF r.fail THEN Done(<<rq>>, Raise(KatcpRequestFail))
     ELSE IF r.informs = <<>> THEN Done(<<rq>>, Raise("IndexError"))
     ELSE Done(<<rq>>, DecodeExact("float", r.informs[1]))

get_datatype(ntile, nblk, converter_type, script) ==
  LET rq == katcprequest("rfdc-get-datatype", <<ntile, nblk, ConvArg(converter_type)>>)
      r == script[1]
  IN IF r.fail THEN Done(<<rq>>, Raise(KatcpRequestFail))
     ELSE IF r.informs = <<>> THEN Done(<<rq>>, Raise("IndexError"))
     ELSE Done(<<rq>>, DecodeExact("int", r.informs[1]))

get_datawidth(ntile, nblk, converter_type, script) ==
  LET rq == katcprequest("rfdc-get-datawidth", <<ntile, nblk, ConvArg(converter_type)>>)
      r == script[1]
  IN IF r.fail THEN Done(<<rq>>, Raise(KatcpRequestFail))
     ELSE IF r.informs = <<>> THEN Done(<<rq>>, Raise("IndexError"))
     ELSE Done(<<rq>>, DecodeExact("int", r.informs[1]))

get_nyquist_zone(ntile, nblk, converter_type, script) ==
  LET rq == katcprequest("rfdc-get-nyquist-zone", <<ntile, nblk, ConvArg(converter_type)>>)
      r == script[1]
  IN IF r.fail THEN Done(<<rq>>, Raise(KatcpRequestFail))
     ELSE IF r.informs = <<>> THEN Done(<<rq>>, Raise("IndexError"))
     ELSE Done(<<rq>>, DecodeScalar(r.informs[1]))

set_nyquist_zone(ntile, nblk, converter_type, nyquist_zone, script) ==
  LET rq == katcprequest("rfdc-set-nyquist-zone", <<ntile, nblk, ConvArg(converter_type),
            nyquist_zone>>)
      r == script[1]
  IN IF r.fail THEN Done(<<rq>>, Raise(KatcpRequestFail))
     ELSE IF r.informs = <<>> THEN Done(<<rq>>, Raise("IndexError"))
     ELSE Done(<<rq>>, DecodeScalar(r.informs[1]))

get_coarse_delay(ntile, nblk, converter_type, script) ==
  LET rq == katcprequest("rfdc-get-coarse-delay", <<ntile, nblk, ConvArg(converter_type)>>)
      r == script[1]
  IN IF r.fail THEN Done(<<rq>>, Raise(KatcpRequestFail))
     ELSE IF r.informs = <<>> THEN Done(<<rq>>, Raise("IndexError"))
     ELSE Done(<<rq>>, DecodeDict("int", r.informs[1]))

set_coarse_delay(ntile, nblk, converter_type, coarse_delay, event_source, script) ==
  LET rq == katcprequest("rfdc-get-coarse-delay", <<ntile, nblk, ConvArg(converter_type),
            coarse_delay, event_source>>)
      r == script[1]
  IN IF r.fail THEN Done(<<rq>>, Raise(KatcpRequestFail))
     ELSE IF r.informs = <<>> THEN Done(<<rq>>, Raise("IndexError"))
     ELSE Done(<<rq>>, DecodeDict("str", r.informs[1]))

get_qmc_settings(ntile, nblk, converter_type, script) ==
  LET rq == katcprequest("rfdc-get-qmc-settings", <<ntile, nblk, ConvArg(converter_type)>>)
      r == script[1]
  IN IF r.fail THEN Done(<<rq>>, Raise(KatcpRequestFail))
     ELSE IF r.informs = <<>> THEN Done(<<rq>>, Raise("IndexError"))
     ELSE Done(<<rq>>, DecodeDict("float", r.informs[1]))

set_qmc_settings(ntile, nblk, converter_type, enable_phase, phase_correction_factor, enable_gain, gain_correction_factor, offset_correction_factor, event_source, script) ==
  LET rq == katcprequest("rfdc-set-qmc-settings", <<ntile, nblk, ConvArg(converter_type),
            enable_phase, enable_gain, gain_correction_factor, phase_correction_factor,
            offset_correction_factor, event_source>>)
      r == script[1]
  IN IF r.fail THEN Done(<<rq>>, Raise(KatcpRequestFail))
     ELSE IF r.informs = <<>> THEN Done(<<rq>>, Raise("IndexError"))
     ELSE Done(<<rq>>, DecodeDict("float", r.informs[1]))

update_event(ntile, nblk, converter_type, event, script) ==
  LET rq == katcprequest("rfdc-update-event", <<ntile, nblk, ConvArg(converter_type), event>>)
      r == script[1]
  IN IF r.fail THEN Done(<<rq>>, Raise(KatcpRequestFail))
     ELSE Done(<<rq>>, Return(PyNone))

get_pll_config(ntile, converter_type, script) ==
  LET rq == katcprequest("rfdc-get-pll-config", <<ntile, ConvArg(converter_type)>>)
      r == script[1]
  IN IF r.fail THEN Done(<<rq>>, Raise(KatcpRequestFail))
     ELSE IF r.informs = <<>> THEN Done(<<rq>>, Raise("IndexError"))
     ELSE Done(<<rq>>, DecodeDict("float", r.informs[1]))

get_pll_lock_status(ntile, converter_type, script) ==
  LET rq == katcprequest("rfdc-pll-lock-status", <<ntile, ConvArg(converter_type)>>)
      r == script[1]
  IN IF r.fail THEN Done(<<rq>>, Raise(KatcpRequestFail))
     ELSE IF r.informs = <<>> THEN Done(<<rq>>, Raise("IndexError"))
     ELSE Done(<<rq>>, DecodeSecond(r.informs[1]))

get_clk_src(ntile, converter_type, script) ==
  LET rq == katcprequest("rfdc-get-clk-src", <<ntile, ConvArg(converter_type)>>)
      r == script[1]
  IN IF r.fail THEN Done(<<rq>>, Raise(KatcpRequestFail))
     ELSE IF r.informs = <<>> THEN Done(<<rq>>, Raise("IndexError"))
     ELSE Done(<<rq>>, DecodeSecond(r.informs[1]))

get_dsa(ntile, nblk, script) ==
  LET rq == katcprequest("rfdc-get-dsa", <<ntile, nblk>>)
      r == script[1]
  IN IF r.fail THEN Done(<<rq>>, Raise(KatcpRequestFail))
     ELSE IF r.informs = <<>> THEN Done(<<rq>>, Raise("IndexError"))
     ELSE Done(<<rq>>, DecodePair(r.informs[1]))

\* mutant: the result carries the number that was passed in, not the readback
set_dsa_returns_input(ntile, nblk, atten_dB, script) ==
  LET rq == katcprequest("rfdc-set-dsa", <<ntile, nblk, atten_dB>>)
      r == script[1]
  IN IF r.fail THEN Done(<<rq>>, Raise(KatcpRequestFail))
     ELSE IF r.informs = <<>> THEN Done(<<rq>>, Raise("IndexError"))
     ELSE LET info == split(r.informs[1], <<SP>>)
          IN IF Len(info) = 1 THEN Done(<<rq>>, Return(PyDict({})))
             ELSE Done(<<rq>>, Return(PyDict(DictSet({}, info[1], atten_dB))))

set_dsa(ntile, nblk, atten_dB, script) ==
  LET rq == katcprequest("rfdc-set-dsa", <<ntile, nblk, atten_dB>>)
      r == script[1]
  IN IF r.fail THEN Done(<<rq>>, Raise(KatcpRequestFail))
     ELSE IF r.informs = <<>> THEN Done(<<rq>>, Raise("IndexError"))
     ELSE Done(<<rq>>, DecodePair(r.informs[1]))

get_cal_freeze(ntile, nblk, script) ==
  LET rq == katcprequest("rfdc-get-cal-freeze", <<ntile, nblk>>)
      r == script[1]
  IN IF r.fail THEN Done(<<rq>>, Raise(KatcpRequestFail))
     ELSE IF r.informs = <<>> THEN Done(<<rq>>, Raise("IndexError"))
     ELSE Done(<<rq>>, DecodeDict("str", r.informs[1]))

set_cal_freeze(ntile, nblk, freeze, script) ==
  LET rq == katcprequest("rfdc-set-cal-freeze", <<ntile, nblk, freeze>>)
      r == script[1]
  IN IF r.fail THEN Done(<<rq>>, Raise(KatcpRequestFail))
     ELSE IF r.informs = <<>> THEN Done(<<rq>>, Raise("IndexError"))
     ELSE Done(<<rq>>, DecodeDict("str", r.informs[1]))

get_cal_coeffs(ntile, nblk, calblk, script) ==
  LET rq == katcprequest("rfdc-get-cal-coeffs", <<ntile, nblk, calblk>>)
      r == script[1]
  IN IF r.fail THEN Done(<<rq>>, Raise(KatcpRequestFail))
     ELSE IF r.informs = <<>> THEN Done(<<rq>>, Raise("IndexError"))
     ELSE Done(<<rq>>, DecodeDict("str", r.informs[1]))

disable_user_coeffs(ntile, nblk, calblk, script) ==
  LET rq == katcprequest("rfdc-disable-user-coeffs", <<ntile, nblk, calblk>>)
      r == script[1]
  IN IF r.fail THEN Done(<<rq>>, Raise(KatcpRequestFail))
     ELSE Done(<<rq>>, Return(PyNone))

get_cal_mode(ntile, nblk, script) ==
  LET rq == katcprequest("rfdc-get-cal-mode", <<ntile, nblk>>)
      r == script[1]
  IN IF r.fail THEN Done(<<rq>>, Raise(KatcpRequestFail))
     ELSE IF r.informs = <<>> THEN Done(<<rq>>, Raise("IndexError"))
     ELSE Done(<<rq>>, DecodeScalar(r.informs[1]))

set_cal_mode(ntile, nblk, calmode, script) ==
  LET rq == katcprequest("rfdc-set-cal-mode", <<ntile, nblk, calmode>>)
      r == script[1]
  IN IF r.fail THEN Done(<<rq>>, Raise(KatcpRequestFail))
     ELSE IF r.informs = <<>> THEN Done(<<rq>>, Raise("IndexError"))
     ELSE Done(<<rq>>, DecodeScalar(r.informs[1]))

get_output_current(ntile, nblk, script) ==
  LET rq == katcprequest("rfdc-get-output-current", <<ntile, nblk>>)
      r == script[1]
  IN IF r.fail THEN Done(<<rq>>, Raise(KatcpRequestFail))
     ELSE IF r.informs = <<>> THEN Done(<<rq>>, Raise("IndexError"))
     ELSE Done(<<rq>>, DecodePair(r.informs[1]))

set_vop(ntile, nblk, curr_uA, script) ==
  LET rq == katcprequest("rfdc-set-vop", <<ntile, nblk, curr_uA>>)
      r == script[1]
  IN IF r.fail THEN Done(<<rq>>, Raise(KatcpRequestFail))
     ELSE IF r.informs = <<>> THEN Done(<<rq>>, Raise("IndexError"))
     ELSE Done(<<rq>>, DecodePair(r.informs[1]))

get_invsinc_fir(ntile, nblk, script) ==
  LET rq == katcprequest("rfdc-get-invsincfir", <<ntile, nblk>>)
      r == script[1]
  IN IF r.fail THEN Done(<<rq>>, Raise(KatcpRequestFail))
     ELSE IF r.informs = <<>> THEN Done(<<rq>>, Raise("IndexError"))
     ELSE Done(<<rq>>, DecodeScalar(r.informs[1]))

set_invsinc_fir(ntile, nblk, invsinc_fir_mode, script) ==
  LET rq == katcprequest("rfdc-set-invsincfir", <<ntile, nblk, invsinc_fir_mode>>)
      r == script[1]
  IN IF r.fail THEN Done(<<rq>>, Raise(KatcpRequestFail))
     ELSE IF r.informs = <<>> THEN Done(<<rq>>, Raise("IndexError"))
     ELSE Done(<<rq>>, DecodeScalar(r.informs[1]))

invsinc_fir_enabled(ntile, nblk, script) ==
  LET rq == katcprequest("rfdc-invsincfir-enabled", <<ntile, nblk>>)
      r == script[1]
  IN IF r.fail THEN Done(<<rq>>, Raise(KatcpRequestFail))
     ELSE IF r.informs = <<>> THEN Done(<<rq>>, Raise("IndexError"))
     ELSE Done(<<rq>>, DecodeScalar(r.informs[1]))

get_imr_mode(ntile, nblk, script) ==
  LET rq == katcprequest("rfdc-get-imr-mode", <<ntile, nblk>>)
      r == script[1]
  IN IF r.fail THEN Done(<<rq>>, Raise(KatcpRequestFail))
     ELSE IF r.informs = <<>> THEN Done(<<rq>>, Raise("IndexError"))
     ELSE Done(<<rq>>, DecodeScalar(r.informs[1]))

set_imr_mode(ntile, nblk, imr_mode, script) ==
  LET rq == katcprequest("rfdc-set-imr-mode", <<ntile, nblk, imr_mode>>)
      r == script[1]
  IN IF r.fail THEN Done(<<rq>>, Raise(KatcpRequestFail))
     ELSE IF r.informs = <<>> THEN Done(<<rq>>, Raise("IndexError"))
     ELSE Done(<<rq>>, DecodeScalar(r.informs[1]))

del_clk_file(clkfname, script) ==
  LET rq == katcprequest("delbof", <<PyStr(clkfname)>>)
      r == script[1]
  IN IF r.fail THEN Done(<<rq>>, Raise(KatcpRequestFail))
     ELSE Done(<<rq>>, Return(PyBool(TRUE)))

\* mutant: the final "return True" is missing
update_nco_mts_no_return(adc_mask, dac_mask, freq, script) ==
  LET rq == katcprequest("rfdc-update-nco-mts", <<adc_mask, dac_mask, freq>>)
      r == script[1]
  IN IF r.fail THEN Done(<<rq>>, Raise(KatcpRequestFail))
     ELSE Done(<<rq>>, Return(PyNone))

update_nco_mts(adc_mask, dac_mask, freq, script) ==
  LET rq == katcprequest("rfdc-update-nco-mts", <<adc_mask, dac_mask, freq>>)
      r == script[1]
  IN IF r.fail THEN Done(<<rq>>, Raise(KatcpRequestFail))
     ELSE Done(<<rq>>, Return(PyBool(TRUE)))

----------------------------------------------------------------------------
(* The methods that write, then read back *)

\* mutant: reads back whether or not the set request yielded an inform
set_pll_config_always_reads(ntile, converter_type, clk_src, pll_ref_freq, sample_rate, script) ==
  LET rq == katcprequest("rfdc-set-pll-config", <<ntile, ConvArg(converter_type), clk_src,
            pll_ref_freq, sample_rate>>)
      r == script[1]
  IN IF r.fail THEN Done(<<rq>>, Raise(KatcpRequestFail))
     ELSE LET g == get_pll_config(ntile, converter_type, Drop(script, 1))
          IN Done(<<rq>> \o g.reqs, g.out)

set_pll_config(ntile, converter_type, clk_src, pll_ref_freq, sample_rate, script) ==
  LET rq == katcprequest("rfdc-set-pll-config", <<ntile, ConvArg(converter_type), clk_src,
            pll_ref_freq, sample_rate>>)
      r == script[1]
  IN IF r.fail THEN Done(<<rq>>, Raise(KatcpRequestFail))
     ELSE IF Len(r.informs) > 0 THEN Done(<<rq>>, Return(PyDict({})))
     ELSE LET g == get_pll_config(ntile, converter_type, Drop(script, 1))
          IN Done(<<rq>> \o g.reqs, g.out)

\* coeffs is a list: args = (ntile, nblk, calblk, *coeffs)
set_cal_coeffs(ntile, nblk, calblk, coeffs, script) ==
  LET rq == katcprequest("rfdc-set-cal-coeffs", <<ntile, nblk, calblk>> \o coeffs)
      r == script[1]
  IN IF r.fail THEN Done(<<rq>>, Raise(KatcpRequestFail))
     ELSE IF Len(r.informs) > 0 THEN Done(<<rq>>, Return(PyDict({})))
     ELSE LET rq2 == katcprequest("rfdc-get-cal-coeffs", <<ntile, nblk, calblk>>)
              r2 == script[2]
          IN IF r2.fail THEN Done(<<rq, rq2>>, Raise(KatcpRequestFail))
             ELSE IF r2.informs = <<>> THEN Done(<<rq, rq2>>, Raise("IndexError"))
             ELSE Done(<<rq, rq2>>,
                       DictLoop("str", split(r2.informs[1], <<CM, SP>>), 1, {}))

----------------------------------------------------------------------------
(* Multi-tile synchronisation *)

\* mutant: the list of the earlier run is kept
mts_reset_missing(report) == report

\* self.mts_report = []
mts_reset(report) == <<>>

\* for i in informs: self.mts_report.append(i)
RECURSIVE AppendAll(_, _, _)
AppendAll(report, informs, i) ==
  IF i > Len(informs) THEN report
  ELSE AppendAll(Append(report, informs[i]), informs, i + 1)

\* report is self.mts_report on entry; the result carries it on exit
run_mts(tile_mask, target_latency, script, report) ==
  LET cleared == mts_reset(report)
      rq == katcprequest("rfdc-run-mts", <<tile_mask>>)
      r == script[1]
  IN IF r.fail
     THEN [reqs |-> <<rq>>, out |-> Raise(KatcpRequestFail), report |-> cleared]
     ELSE [reqs |-> <<rq>>, out |-> Return(PyBool(TRUE)),
           report |-> AppendAll(cleared, r.informs, 1)]

\* for m in self.mts_report: print(m)
get_mts_report(has, report) ==
  IF ~has THEN Done(<<>>, Raise("AttributeError"))
  ELSE Done(<<>>, Return(PyBool(TRUE)))

\* mutant: the least significant bit is taken for index 1
Bit_one_based(mask, i) == (mask \div (2 ^ (i + 1))) % 2

\* (mask >> i) & 1
Bit(mask, i) == (mask \div (2 ^ i)) % 2

\* for tile in range(0,4): for blk in range(0,4): with idx = tile*4 + blk
RECURSIVE MixerLoop(_, _, _, _, _)
MixerLoop(kind, mask, idx, script, reqs) ==
  IF idx > 15 THEN Done(reqs, Return(PyNone))
  ELSE IF Bit(mask, idx) = 1
  THEN LET rq == katcprequest("rfdc-report-mixer",
                              <<PyNum(idx \div 4), PyNum(idx % 4), PyStr(<<kind>>)>>)
           r == script[Len(reqs) + 1]
       IN IF r.fail THEN Done(Append(reqs, rq), Raise(KatcpRequestFail))
          ELSE MixerLoop(kind, mask, idx + 1, script, Append(reqs, rq))
  ELSE MixerLoop(kind, mask, idx + 1, script, reqs)

report_mixer_status(adc_mask, dac_mask, script) ==
  LET a == MixerLoop("adc", adc_mask, 0, script, <<>>)
  IN IF a.out.kind = "raise" THEN a
     ELSE LET b == MixerLoop("dac", dac_mask, 0, script, a.reqs)
          IN IF b.out.kind = "raise" THEN b
             ELSE Done(b.reqs, Return(PyBool(TRUE)))

----------------------------------------------------------------------------
(* Status *)

\* a list is kept as the items {index: element}
PyList(l) ==
  [t |-> "list", v |-> <<>>,
   d |-> {[k |-> <<ToString(i - 1)>>, t |-> "str", v |-> l[i], d |-> {}] : i \in 1..Len(l)}]

\* for i in informs: info = i.split(': '); tile = info[0];
\* stat = info[1].split(', '); d = the loop over stat with int; status[tile] = d
RECURSIVE StatusLoop(_, _, _)
StatusLoop(informs, i, st) ==
  IF i > Len(informs) THEN Return(PyDict(st))
  ELSE LET info == split(informs[i], <<COLON, SP>>)
       IN IF Len(info) < 2 THEN Raise("IndexError")
          ELSE LET d == DictLoop("int", split(info[2], <<CM, SP>>), 1, {})
               IN IF d.kind = "raise" THEN d
                  ELSE StatusLoop(informs, i + 1, DictSet(st, info[1], d.val))

status(script) ==
  LET rq == katcprequest("rfdc-status", <<>>)
      r == script[1]
  IN IF r.fail THEN Done(<<rq>>, Raise(KatcpRequestFail))
     ELSE Done(<<rq>>, StatusLoop(r.informs, 1, {}))

----------------------------------------------------------------------------
(* Clock files and PLL programming.  local is the set of paths that exist  *)
(* on the client, so that os.path.getsize(p) raises OSError outside it.    *)

LMK == "lmk"
LMX == "lmx"

\* for f in files: s = f.split('.'); kept if len(s) > 1 and s[-1] == 'txt'
RECURSIVE ClkFiles(_, _)
ClkFiles(files, i) ==
  IF i > Len(files) THEN <<>>
  ELSE LET s == split(files[i], <<DOT>>)
       IN (IF Len(s) > 1 /\ s[Len(s)] = <<"txt">> THEN <<files[i]>> ELSE <<>>)
            \o ClkFiles(files, i + 1)

show_clk_files(script) ==
  LET r == script[1]
  IN IF r.fail THEN Done(<<listbof>>, Raise(KatcpRequestFail))
     ELSE Done(<<listbof>>, Return(PyList(ClkFiles(r.informs, 1))))

\* mutant: the remote files are listed whether or not force_upload is set
upload_clk_file_lists_always(fpath, port, force_upload, local, script) ==
  IF fpath \notin local THEN Done(<<>>, Raise("OSError"))
  ELSE LET fname == basename(fpath)
           ls == show_clk_files(script)
       IN IF ls.out.kind = "raise" THEN ls
          ELSE IF ~force_upload /\ count(ClkFiles(script[1].informs, 1), fname) = 1
          THEN Done(ls.reqs, Return(PyBool(TRUE)))
          ELSE LET rq == upload_to_flash(fpath, force_upload)
                   r == script[Len(ls.reqs) + 1]
               IN IF r.fail THEN Done(Append(ls.reqs, rq), Raise(KatcpRequestFail))
                  ELSE Done(Append(ls.reqs, rq), Return(PyBool(TRUE)))

upload_clk_file(fpath, port, force_upload, local, script) ==
  IF fpath \notin local THEN Done(<<>>, Raise("OSError"))
  ELSE LET fname == basename(fpath)
           ls == IF force_upload THEN Done(<<>>, Return(PyNone))
                 ELSE show_clk_files(script)
       IN IF ls.out.kind = "raise" THEN ls
          ELSE IF ~force_upload /\ count(ClkFiles(script[1].informs, 1), fname) = 1
          THEN Done(ls.reqs, Return(PyBool(TRUE)))
          ELSE LET rq == upload_to_flash(fpath, force_upload)
                   r == script[Len(ls.reqs) + 1]
               IN IF r.fail THEN Done(Append(ls.reqs, rq), Raise(KatcpRequestFail))
                  ELSE Done(Append(ls.reqs, rq), Return(PyBool(TRUE)))

\* mutant: plltype is compared as given, without lower()
progpll_case_sensitive(plltype, fpath, upload, port, local, script) ==
  LET pt == plltype
  IN IF pt \notin {LMK, LMX} THEN Done(<<>>, Return(PyBool(FALSE)))
     ELSE LET up == IF Truthy(fpath) /\ upload
                    THEN IF fpath.v \notin local THEN Done(<<>>, Raise("OSError"))
                         ELSE upload_clk_file(fpath.v, PyNone, TRUE, local, script)
                    ELSE Done(<<>>, Return(PyNone))
          IN IF up.out.kind = "raise" THEN up
             ELSE LET as == IF Truthy(fpath)
                            THEN <<PyStr(<<pt>>), PyStr(basename(fpath.v))>>
                            ELSE <<PyStr(<<pt>>)>>
                      rq == katcprequest("rfdc-progpll", as)
                      r == script[Len(up.reqs) + 1]
                  IN IF r.fail THEN Done(Append(up.reqs, rq), Raise(KatcpRequestFail))
                     ELSE Done(Append(up.reqs, rq), Return(PyBool(TRUE)))

\* mutant: the request names the file by its whole path
progpll_full_path(plltype, fpath, upload, port, local, script) ==
  LET pt == lower(plltype)
  IN IF pt \notin {LMK, LMX} THEN Done(<<>>, Return(PyBool(FALSE)))
     ELSE LET up == IF Truthy(fpath) /\ upload
                    THEN IF fpath.v \notin local THEN Done(<<>>, Raise("OSError"))
                         ELSE upload_clk_file(fpath.v, PyNone, TRUE, local, script)
                    ELSE Done(<<>>, Return(PyNone))
          IN IF up.out.kind = "raise" THEN up
             ELSE LET as == IF Truthy(fpath)
                            THEN <<PyStr(<<pt>>), PyStr(fpath.v)>>
                            ELSE <<PyStr(<<pt>>)>>
                      rq == katcprequest("rfdc-progpll", as)
                      r == script[Len(up.reqs) + 1]
                  IN IF r.fail THEN Done(Append(up.reqs, rq), Raise(KatcpRequestFail))
                     ELSE Done(Append(up.reqs, rq), Return(PyBool(TRUE)))

\* fpath is None or a str; port is not passed on
progpll(plltype, fpath, upload, port, local, script) ==
  LET pt == lower(plltype)
  IN IF pt \notin {LMK, LMX} THEN Done(<<>>, Return(PyBool(FALSE)))
     ELSE LET up == IF Truthy(fpath) /\ upload
                    THEN IF fpath.v \notin local THEN Done(<<>>, Raise("OSError"))
                         ELSE upload_clk_file(fpath.v, PyNone, TRUE, local, script)
                    ELSE Done(<<>>, Return(PyNone))
          IN IF up.out.kind = "raise" THEN up
             ELSE LET as == IF Truthy(fpath)
                            THEN <<PyStr(<<pt>>), PyStr(basename(fpath.v))>>
                            ELSE <<PyStr(<<pt>>)>>
                      rq == katcprequest("rfdc-progpll", as)
                      r == script[Len(up.reqs) + 1]
                  IN IF r.fail THEN Done(Append(up.reqs, rq), Raise(KatcpRequestFail))
                     ELSE Done(Append(up.reqs, rq), Return(PyBool(TRUE)))

\* mutant: a failure while programming a PLL is swallowed and init goes on
init_swallows(lmk_file, lmx_file, upload, local, script) ==
  LET a == IF Truthy(lmk_file) THEN progpll("lmk", lmk_file, upload, PyNone, local, script)
           ELSE Done(<<>>, Return(PyNone))
      b == IF Truthy(lmx_file)
           THEN progpll("lmx", lmx_file, upload, PyNone, local, Drop(script, Len(a.reqs)))
           ELSE Done(<<>>, Return(PyNone))
      before == a.reqs \o b.reqs
      rq == katcprequest("rfdc-init", <<>>)
      r == script[Len(before) + 1]
  IN IF r.fail THEN Done(Append(before, rq), Raise(KatcpRequestFail))
     ELSE Done(Append(before, rq), Return(PyBool(TRUE)))

\* mutant: the lmx PLL is programmed before the lmk PLL
init_lmx_first(lmk_file, lmx_file, upload, local, script) ==
  LET a == IF Truthy(lmx_file) THEN progpll("lmx", lmx_file, upload, PyNone, local, script)
           ELSE Done(<<>>, Return(PyNone))
  IN IF a.out.kind = "raise" THEN a
     ELSE LET b == IF Truthy(lmk_file)
                   THEN progpll("lmk", lmk_file, upload, PyNone, local,
                                Drop(script, Len(a.reqs)))
                   ELSE Done(<<>>, Return(PyNone))
          IN IF b.out.kind = "raise" THEN Done(a.reqs \o b.reqs, b.out)
             ELSE LET before == a.reqs \o b.reqs
                      rq == katcprequest("rfdc-init", <<>>)
                      r == script[Len(before) + 1]
                  IN IF r.fail THEN Done(Append(before, rq), Raise(KatcpRequestFail))
                     ELSE Done(Append(before, rq), Return(PyBool(TRUE)))

init(lmk_file, lmx_file, upload, local, script) ==
  LET a == IF Truthy(lmk_file) THEN progpll("lmk", lmk_file, upload, PyNone, local, script)
           ELSE Done(<<>>, Return(PyNone))
  IN IF a.out.kind = "raise" THEN a
     ELSE LET b == IF Truthy(lmx_file)
                   THEN progpll("lmx", lmx_file, upload, PyNone, local,
                                Drop(script, Len(a.reqs)))
                   ELSE Done(<<>>, Return(PyNone))
          IN IF b.out.kind = "raise" THEN Done(a.reqs \o b.reqs, b.out)
             ELSE LET before == a.reqs \o b.reqs
                      rq == katcprequest("rfdc-init", <<>>)
                      r == script[Len(before) + 1]
                  IN IF r.fail THEN Done(Append(before, rq), Raise(KatcpRequestFail))
                     ELSE Done(Append(before, rq), Return(PyBool(TRUE)))

\* the copy of dtbofile to 'tcpborphserver.dtbo' and its removal stay local
apply_dto(dtbofile, local, script) ==
  IF dtbofile \notin local THEN Done(<<>>, Raise("OSError"))
  ELSE LET up == upload_to_flash(<<"tcpborphserver", DOT, "dtbo">>, TRUE)
           rq == katcprequest("dto", <<PyStr(<<"apply">>)>>)
       IN IF script[1].fail THEN Done(<<up>>, Raise(KatcpRequestFail))
          ELSE IF script[2].fail THEN Done(<<up, rq>>, Raise(KatcpRequestFail))
          ELSE IF script[2].informs = <<>> THEN Done(<<up, rq>>, Raise("IndexError"))
          ELSE Done(<<up, rq>>, Return(PyBool(script[2].informs[1] = <<"applied", "\n">>)))

\* raise NotImplemented(): NotImplemented is not callable
get_adc_snapshot(ntile, nblk) == Done(<<>>, Raise("TypeError"))

----------------------------------------------------------------------------
(* The environment: what callers pass and what the peer may answer *)

\* the sequences over S of length at most n
Seqs(S, n) == UNION {[1..k -> S] : k \in 0..n}

Keys == {"Enabled", "State"}
Vals == {"1", "1.5", "x"}

\* the items of a payload: a "key value" pair, a lone token, nothing, or a
\* pair with one token too many
Items ==
  {<<k, SP, v>> : k \in Keys, v \in Vals}
    \cup {DISABLED, <<"1">>, <<>>, <<"Enabled", SP, "1", SP, "x">>}

\* n items joined by ", "
RECURSIVE Joined(_)
Joined(n) ==
  IF n = 1 THEN Items
  ELSE {p \o <<CM, SP>> \o i : p \in Joined(n - 1), i \in Items}

Payloads == UNION {Joined(n) : n \in 1..MaxItems}

\* the answers to an accessor's request: failure, no inform, one inform
Responses == {Fail, Ok(<<>>)} \cup {Ok(<<p>>) : p \in Payloads}
\* the answers to a request whose informs are not decoded
Acks == {Fail, Ok(<<>>), Ok(<<DISABLED>>)}
Plain == {Fail, Ok(<<>>)}

MtsLines == {<<"mts", SP, "ok">>, <<"latency", SP, "15">>}
StatusLines ==
  { <<"ADC0", COLON, SP, "Enabled", SP, "1", CM, SP, "State", SP, "15">>,
    <<"ADC0", COLON, SP, "Enabled", SP, "0">>,
    <<"DAC0", COLON, SP, "Enabled", SP, "0">>,
    <<"DAC0", COLON, SP, "Enabled", SP, "x">>,
    <<"ADC0">> }

Paths == {<<"lmk", DOT, "txt">>, <<"cfg", SLASH, "lmx", DOT, "txt">>}
RemoteNames ==
  {<<"lmk", DOT, "txt">>, <<"lmx", DOT, "txt">>, <<"design", DOT, "fpg">>, <<"README">>}
\* file paths passed to upload_clk_file: register files, one without extension
ClkPaths == Paths \cup {<<"README">>}
Listings == {Fail} \cup {Ok(l) : l \in Seqs(RemoteNames, MaxListed)}
Dtbo == <<"design", DOT, "dtbo">>

Tiles == {PyInt("3")}
Blks == {PyInt("2")}
Convs == {ADC_TILE, DAC_TILE, PyStr(<<"adc">>), PyStr(<<"dac">>)}
MixerMasks == {0, 5, 65535}

\* the values callers write, by parameter
In ==
  [ nyquist_zone |-> {PyInt("2")},
    coarse_delay |-> {PyInt("15")},
    event_source |-> {PyInt("0")},
    enable_phase |-> {PyInt("1")},
    phase_correction_factor |-> {PyFloat("1.5")},
    enable_gain |-> {PyInt("0")},
    gain_correction_factor |-> {PyFloat("2.0")},
    offset_correction_factor |-> {PyInt("15")},
    event |-> {PyInt("1")},
    clk_src |-> {PyInt("1")},
    pll_ref_freq |-> {PyFloat("1.5")},
    sample_rate |-> {PyFloat("2.0")},
    atten_dB |-> {PyFloat("1.5")},
    freeze |-> {PyInt("1")},
    calblk |-> {PyInt("0")},
    coeffs |-> {<<PyInt("1"), PyInt("2")>>},
    calmode |-> {PyInt("2")},
    curr_uA |-> {PyInt("15")},
    invsinc_fir_mode |-> {PyInt("1")},
    imr_mode |-> {PyInt("1")},
    clkfname |-> {<<"lmk", DOT, "txt">>},
    adc_mask |-> {PyInt("15")},
    dac_mask |-> {PyInt("1")},
    freq |-> {PyFloat("1.5")},
    tile_mask |-> {PyInt("15")} ]

----------------------------------------------------------------------------
(* Actions: one per method *)

\* no thread of the caller is inside run_mts, none has made a list
NoThreads ==
  [serialized |-> TRUE, ref |-> 0, heap |-> [t \in {1, 2} |-> <<>>],
   run |-> [t \in {1, 2} |-> [pc |-> "start", informs |-> <<>>, i |-> 1, ld |-> 0,
                               out |-> Return(PyNone)]]]

NoCall ==
  [op |-> "none", args |-> <<>>, reqs |-> <<>>, resps |-> <<>>, out |-> Return(PyNone),
   pre |-> [has |-> FALSE, list |-> <<>>]]

\* the record of a finished call: the answers are those the call consumed,
\* pre is self.mts_report as the call found it
Called(op, as, script, res) ==
  [op |-> op, args |-> as, reqs |-> res.reqs,
   resps |-> SubSeq(script, 1, Len(res.reqs)), out |-> res.out,
   pre |-> [has |-> has_report, list |-> mts_report]]


GetFabricClkFreq ==
  /\ call = NoCall
  /\ \E ntile \in Tiles, converter_type \in Convs, r \in Responses :
       call' = Called("get_fabric_clk_freq", <<ntile, converter_type>>, <<r>>,
                      get_fabric_clk_freq(ntile, converter_type, <<r>>))
  /\ UNCHANGED <<has_report, mts_report, peer, prev, other, threads>>

GetDatatype ==
  /\ call = NoCall
  /\ \E ntile \in Tiles, nblk \in Blks, converter_type \in Convs, r \in Responses :
       call' = Called("get_datatype", <<ntile, nblk, converter_type>>, <<r>>,
                      get_datatype(ntile, nblk, converter_type, <<r>>))
  /\ UNCHANGED <<has_report, mts_report, peer, prev, other, threads>>

GetDatawidth ==
  /\ call = NoCall
  /\ \E ntile \in Tiles, nblk \in Blks, converter_type \in Convs, r \in Responses :
       call' = Called("get_datawidth", <<ntile, nblk, converter_type>>, <<r>>,
                      get_datawidth(ntile, nblk, converter_type, <<r>>))
  /\ UNCHANGED <<has_report, mts_report, peer, prev, other, threads>>

GetNyquistZone ==
  /\ call = NoCall
  /\ \E ntile \in Tiles, nblk \in Blks, converter_type \in Convs, r \in Responses :
       call' = Called("get_nyquist_zone", <<ntile, nblk, converter_type>>, <<r>>,
                      get_nyquist_zone(ntile, nblk, converter_type, <<r>>))
  /\ UNCHANGED <<has_report, mts_report, peer, prev, other, threads>>

SetNyquistZone ==
  /\ call = NoCall
  /\ \E ntile \in Tiles, nblk \in Blks, converter_type \in Convs,
        nyquist_zone \in In.nyquist_zone, r \in Responses :
       call' = Called("set_nyquist_zone", <<ntile, nblk, converter_type, nyquist_zone>>, <<r>>,
                      set_nyquist_zone(ntile, nblk, converter_type, nyquist_zone, <<r>>))
  /\ UNCHANGED <<has_report, mts_report, peer, prev, other, threads>>

GetCoarseDelay ==
  /\ call = NoCall
  /\ \E ntile \in Tiles, nblk \in Blks, converter_type \in Convs, r \in Responses :
       call' = Called("get_coarse_delay", <<ntile, nblk, converter_type>>, <<r>>,
                      get_coarse_delay(ntile, nblk, converter_type, <<r>>))
  /\ UNCHANGED <<has_report, mts_report, peer, prev, other, threads>>

SetCoarseDelay ==
  /\ call = NoCall
  /\ \E ntile \in Tiles, nblk \in Blks, converter_type \in Convs,
        coarse_delay \in In.coarse_delay, event_source \in In.event_source,
        r \in Responses :
       call' = Called("set_coarse_delay", <<ntile, nblk, converter_type, coarse_delay, event_source>>, <<r>>,
                      set_coarse_delay(ntile, nblk, converter_type, coarse_delay, event_source, <<r>>))
  /\ UNCHANGED <<has_report, mts_report, peer, prev, other, threads>>

GetQmcSettings ==
  /\ call = NoCall
  /\ \E ntile \in Tiles, nblk \in Blks, converter_type \in Convs, r \in Responses :
       call' = Called("get_qmc_settings", <<ntile, nblk, converter_type>>, <<r>>,
                      get_qmc_settings(ntile, nblk, converter_type, <<r>>))
  /\ UNCHANGED <<has_report, mts_report, peer, prev, other, threads>>

SetQmcSettings ==
  /\ call = NoCall
  /\ \E ntile \in Tiles, nblk \in Blks, converter_type \in Convs,
        enable_phase \in In.enable_phase,
        phase_correction_factor \in In.phase_correction_factor,
        enable_gain \in In.enable_gain,
        gain_correction_factor \in In.gain_correction_factor,
        offset_correction_factor \in In.offset_correction_factor,
        event_source \in In.event_source, r \in Responses :
       call' = Called("set_qmc_settings", <<ntile, nblk, converter_type, enable_phase, phase_correction_factor, enable_gain, gain_correction_factor, offset_correction_factor, event_source>>, <<r>>,
                      set_qmc_settings(ntile, nblk, converter_type, enable_phase, phase_correction_factor, enable_gain, gain_correction_factor, offset_correction_factor, event_source, <<r>>))
  /\ UNCHANGED <<has_report, mts_report, peer, prev, other, threads>>

UpdateEvent ==
  /\ call = NoCall
  /\ \E ntile \in Tiles, nblk \in Blks, converter_type \in Convs, event \in In.event,
        r \in Acks :
       call' = Called("update_event", <<ntile, nblk, converter_type, event>>, <<r>>,
                      update_event(ntile, nblk, converter_type, event, <<r>>))
  /\ UNCHANGED <<has_report, mts_report, peer, prev, other, threads>>

GetPllConfig ==
  /\ call = NoCall
  /\ \E ntile \in Tiles, converter_type \in Convs, r \in Responses :
       call' = Called("get_pll_config", <<ntile, converter_type>>, <<r>>,
                      get_pll_config(ntile, converter_type, <<r>>))
  /\ UNCHANGED <<has_report, mts_report, peer, prev, other, threads>>

GetPllLockStatus ==
  /\ call = NoCall
  /\ \E ntile \in Tiles, converter_type \in Convs, r \in Responses :
       call' = Called("get_pll_lock_status", <<ntile, converter_type>>, <<r>>,
                      get_pll_lock_status(ntile, converter_type, <<r>>))
  /\ UNCHANGED <<has_report, mts_report, peer, prev, other, threads>>

GetClkSrc ==
  /\ call = NoCall
  /\ \E ntile \in Tiles, converter_type \in Convs, r \in Responses :
       call' = Called("get_clk_src", <<ntile, converter_type>>, <<r>>,
                      get_clk_src(ntile, converter_type, <<r>>))
  /\ UNCHANGED <<has_report, mts_report, peer, prev, other, threads>>

GetDsa ==
  /\ call = NoCall
  /\ \E ntile \in Tiles, nblk \in Blks, r \in Responses :
       call' = Called("get_dsa", <<ntile, nblk>>, <<r>>, get_dsa(ntile, nblk, <<r>>))
  /\ UNCHANGED <<has_report, mts_report, peer, prev, other, threads>>

SetDsa ==
  /\ call = NoCall
  /\ \E ntile \in Tiles, nblk \in Blks, atten_dB \in In.atten_dB, r \in Responses :
       call' = Called("set_dsa", <<ntile, nblk, atten_dB>>, <<r>>,
                      set_dsa(ntile, nblk, atten_dB, <<r>>))
  /\ UNCHANGED <<has_report, mts_report, peer, prev, other, threads>>

GetCalFreeze ==
  /\ call = NoCall
  /\ \E ntile \in Tiles, nblk \in Blks, r \in Responses :
       call' = Called("get_cal_freeze", <<ntile, nblk>>, <<r>>,
                      get_cal_freeze(ntile, nblk, <<r>>))
  /\ UNCHANGED <<has_report, mts_report, peer, prev, other, threads>>

SetCalFreeze ==
  /\ call = NoCall
  /\ \E ntile \in Tiles, nblk \in Blks, freeze \in In.freeze, r \in Responses :
       call' = Called("set_cal_freeze", <<ntile, nblk, freeze>>, <<r>>,
                      set_cal_freeze(ntile, nblk, freeze, <<r>>))
  /\ UNCHANGED <<has_report, mts_report, peer, prev, other, threads>>

GetCalCoeffs ==
  /\ call = NoCall
  /\ \E ntile \in Tiles, nblk \in Blks, calblk \in In.calblk, r \in Responses :
       call' = Called("get_cal_coeffs", <<ntile, nblk, calblk>>, <<r>>,
                      get_cal_coeffs(ntile, nblk, calblk, <<r>>))
  /\ UNCHANGED <<has_report, mts_report, peer, prev, other, threads>>

DisableUserCoeffs ==
  /\ call = NoCall
  /\ \E ntile \in Tiles, nblk \in Blks, calblk \in In.calblk, r \in Acks :
       call' = Called("disable_user_coeffs", <<ntile, nblk, calblk>>, <<r>>,
                      disable_user_coeffs(ntile, nblk, calblk, <<r>>))
  /\ UNCHANGED <<has_report, mts_report, peer, prev, other, threads>>

GetCalMode ==
  /\ call = NoCall
  /\ \E ntile \in Tiles, nblk \in Blks, r \in Responses :
       call' = Called("get_cal_mode", <<ntile, nblk>>, <<r>>, get_cal_mode(ntile, nblk, <<r>>))
  /\ UNCHANGED <<has_report, mts_report, peer, prev, other, threads>>

SetCalMode ==
  /\ call = NoCall
  /\ \E ntile \in Tiles, nblk \in Blks, calmode \in In.calmode, r \in Responses :
       call' = Called("set_cal_mode", <<ntile, nblk, calmode>>, <<r>>,
                      set_cal_mode(ntile, nblk, calmode, <<r>>))
  /\ UNCHANGED <<has_report, mts_report, peer, prev, other, threads>>

GetOutputCurrent ==
  /\ call = NoCall
  /\ \E ntile \in Tiles, nblk \in Blks, r \in Responses :
       call' = Called("get_output_current", <<ntile, nblk>>, <<r>>,
                      get_output_current(ntile, nblk, <<r>>))
  /\ UNCHANGED <<has_report, mts_report, peer, prev, other, threads>>

SetVop ==
  /\ call = NoCall
  /\ \E ntile \in Tiles, nblk \in Blks, curr_uA \in In.curr_uA, r \in Responses :
       call' = Called("set_vop", <<ntile, nblk, curr_uA>>, <<r>>,
                      set_vop(ntile, nblk, curr_uA, <<r>>))
  /\ UNCHANGED <<has_report, mts_report, peer, prev, other, threads>>

GetInvsincFir ==
  /\ call = NoCall
  /\ \E ntile \in Tiles, nblk \in Blks, r \in Responses :
       call' = Called("get_invsinc_fir", <<ntile, nblk>>, <<r>>,
                      get_invsinc_fir(ntile, nblk, <<r>>))
  /\ UNCHANGED <<has_report, mts_report, peer, prev, other, threads>>

SetInvsincFir ==
  /\ call = NoCall
  /\ \E ntile \in Tiles, nblk \in Blks, invsinc_fir_mode \in In.invsinc_fir_mode,
        r \in Responses :
       call' = Called("set_invsinc_fir", <<ntile, nblk, invsinc_fir_mode>>, <<r>>,
                      set_invsinc_fir(ntile, nblk, invsinc_fir_mode, <<r>>))
  /\ UNCHANGED <<has_report, mts_report, peer, prev, other, threads>>

InvsincFirEnabled ==
  /\ call = NoCall
  /\ \E ntile \in Tiles, nblk \in Blks, r \in Responses :
       call' = Called("invsinc_fir_enabled", <<ntile, nblk>>, <<r>>,
                      invsinc_fir_enabled(ntile, nblk, <<r>>))
  /\ UNCHANGED <<has_report, mts_report, peer, prev, other, threads>>

GetImrMode ==
  /\ call = NoCall
  /\ \E ntile \in Tiles, nblk \in Blks, r \in Responses :
       call' = Called("get_imr_mode", <<ntile, nblk>>, <<r>>, get_imr_mode(ntile, nblk, <<r>>))
  /\ UNCHANGED <<has_report, mts_report, peer, prev, other, threads>>

SetImrMode ==
  /\ call = NoCall
  /\ \E ntile \in Tiles, nblk \in Blks, imr_mode \in In.imr_mode, r \in Responses :
       call' = Called("set_imr_mode", <<ntile, nblk, imr_mode>>, <<r>>,
                      set_imr_mode(ntile, nblk, imr_mode, <<r>>))
  /\ UNCHANGED <<has_report, mts_report, peer, prev, other, threads>>

DelClkFile ==
  /\ call = NoCall
  /\ \E clkfname \in In.clkfname, r \in Acks :
       call' = Called("del_clk_file", <<PyStr(clkfname)>>, <<r>>, del_clk_file(clkfname, <<r>>))
  /\ UNCHANGED <<has_report, mts_report, peer, prev, other, threads>>

UpdateNcoMts ==
  /\ call = NoCall
  /\ \E adc_mask \in In.adc_mask, dac_mask \in In.dac_mask, freq \in In.freq, r \in Acks :
       call' = Called("update_nco_mts", <<adc_mask, dac_mask, freq>>, <<r>>,
                      update_nco_mts(adc_mask, dac_mask, freq, <<r>>))
  /\ UNCHANGED <<has_report, mts_report, peer, prev, other, threads>>
SetPllConfig ==
  /\ call = NoCall
  /\ \E ntile \in Tiles, converter_type \in Convs, clk_src \in In.clk_src,
        pll_ref_freq \in In.pll_ref_freq, sample_rate \in In.sample_rate,
        r1 \in Acks, r2 \in Responses :
       call' = Called("set_pll_config",
                      <<ntile, converter_type, clk_src, pll_ref_freq, sample_rate>>,
                      <<r1, r2>>,
                      set_pll_config(ntile, converter_type, clk_src, pll_ref_freq,
                                     sample_rate, <<r1, r2>>))
  /\ UNCHANGED <<has_report, mts_report, peer, prev, other, threads>>

SetCalCoeffs ==
  /\ call = NoCall
  /\ \E ntile \in Tiles, nblk \in Blks, calblk \in In.calblk, coeffs \in In.coeffs,
        r1 \in Acks, r2 \in Responses :
       call' = Called("set_cal_coeffs", <<ntile, nblk, calblk, PyList(coeffs)>>, <<r1, r2>>,
                      set_cal_coeffs(ntile, nblk, calblk, coeffs, <<r1, r2>>))
  /\ UNCHANGED <<has_report, mts_report, peer, prev, other, threads>>

RunMts ==
  /\ call = NoCall
  /\ \E tile_mask \in In.tile_mask, r \in {Fail} \cup {Ok(s) : s \in Seqs(MtsLines, MaxInforms)} :
       LET res == run_mts(tile_mask, PyNone, <<r>>, mts_report)
       IN /\ call' = Called("run_mts", <<tile_mask, PyNone>>, <<r>>, res)
          /\ has_report' = TRUE
          /\ mts_report' = res.report
  /\ UNCHANGED <<peer, prev, other, threads>>

\* mutant: mts_report held by the class, one list for all instances
RunMtsOtherShared ==
  /\ call = NoCall
  /\ \E tile_mask \in In.tile_mask, r \in {Fail, Ok(<<<<"mts", SP, "ok">>>>)} :
       LET res == run_mts(tile_mask, PyNone, <<r>>, other.list)
       IN /\ call' = Called("other.run_mts", <<tile_mask, PyNone>>, <<r>>, res)
          /\ other' = [has |-> TRUE, list |-> res.report]
          /\ has_report' = TRUE
          /\ mts_report' = res.report
  /\ UNCHANGED <<peer, prev, threads>>

\* run_mts called on a second instance of RFDC: self is that instance
RunMtsOther ==
  /\ call = NoCall
  /\ \E tile_mask \in In.tile_mask, r \in {Fail, Ok(<<<<"mts", SP, "ok">>>>)} :
       LET res == run_mts(tile_mask, PyNone, <<r>>, other.list)
       IN /\ call' = Called("other.run_mts", <<tile_mask, PyNone>>, <<r>>, res)
          /\ other' = [has |-> TRUE, list |-> res.report]
  /\ UNCHANGED <<has_report, mts_report, peer, prev, threads>>

GetMtsReport ==
  /\ call = NoCall
  /\ call' = Called("get_mts_report", <<>>, <<>>, get_mts_report(has_report, mts_report))
  /\ UNCHANGED <<has_report, mts_report, peer, prev, other, threads>>

\* the transport fails at its failAt-th request, or never (failAt = 0)
ReportMixerStatus ==
  /\ call = NoCall
  /\ \E adc_mask \in MixerMasks, dac_mask \in MixerMasks, failAt \in 0..32 :
       LET script == [i \in 1..32 |-> IF i = failAt THEN Fail ELSE Ok(<<>>)]
       IN call' = Called("report_mixer_status", <<PyNum(adc_mask), PyNum(dac_mask)>>, script,
                         report_mixer_status(adc_mask, dac_mask, script))
  /\ UNCHANGED <<has_report, mts_report, peer, prev, other, threads>>

Status ==
  /\ call = NoCall
  /\ \E r \in {Fail} \cup {Ok(s) : s \in Seqs(StatusLines, MaxInforms)} :
       call' = Called("status", <<>>, <<r>>, status(<<r>>))
  /\ UNCHANGED <<has_report, mts_report, peer, prev, other, threads>>

ShowClkFiles ==
  /\ call = NoCall
  /\ \E r \in Listings :
       call' = Called("show_clk_files", <<>>, <<r>>, show_clk_files(<<r>>))
  /\ UNCHANGED <<has_report, mts_report, peer, prev, other, threads>>

UploadClkFile ==
  /\ call = NoCall
  /\ \E fpath \in ClkPaths, force_upload \in BOOLEAN, local \in SUBSET ClkPaths,
        r1 \in Listings, r2 \in Plain :
       call' = Called("upload_clk_file", <<PyStr(fpath), PyNone, PyBool(force_upload)>>,
                      <<r1, r2>>,
                      upload_clk_file(fpath, PyNone, force_upload, local, <<r1, r2>>))
  /\ UNCHANGED <<has_report, mts_report, peer, prev, other, threads>>

Progpll ==
  /\ call = NoCall
  /\ \E plltype \in {"lmk", "LMX", "vco"}, fpath \in {PyNone} \cup {PyStr(p) : p \in Paths},
        upload \in BOOLEAN, local \in SUBSET Paths, r1 \in Plain, r2 \in Plain :
       call' = Called("progpll", <<PyStr(<<plltype>>), fpath, PyBool(upload), PyNone>>,
                      <<r1, r2>>,
                      progpll(plltype, fpath, upload, PyNone, local, <<r1, r2>>))
  /\ UNCHANGED <<has_report, mts_report, peer, prev, other, threads>>

InitDriver ==
  /\ call = NoCall
  /\ \E lmk_file \in {PyNone, PyStr(<<"lmk", DOT, "txt">>)},
        lmx_file \in {PyNone, PyStr(<<"cfg", SLASH, "lmx", DOT, "txt">>)},
        upload \in BOOLEAN, local \in SUBSET Paths, script \in [1..5 -> Plain] :
       call' = Called("init", <<lmk_file, lmx_file, PyBool(upload)>>, script,
                      init(lmk_file, lmx_file, upload, local, script))
  /\ UNCHANGED <<has_report, mts_report, peer, prev, other, threads>>

ApplyDto ==
  /\ call = NoCall
  /\ \E local \in {{}, {Dtbo}}, r1 \in Plain,
        r2 \in Acks \cup {Ok(<<<<"applied", "\n">>>>)} :
       call' = Called("apply_dto", <<PyStr(Dtbo)>>, <<r1, r2>>,
                      apply_dto(Dtbo, local, <<r1, r2>>))
  /\ UNCHANGED <<has_report, mts_report, peer, prev, other, threads>>

GetAdcSnapshot ==
  /\ call = NoCall
  /\ \E ntile \in Tiles, nblk \in Blks :
       call' = Called("get_adc_snapshot", <<ntile, nblk>>, <<>>, get_adc_snapshot(ntile, nblk))
  /\ UNCHANGED <<has_report, mts_report, peer, prev, other, threads>>

\* the caller takes the result and is ready for its next call
Resume ==
  /\ call # NoCall
  /\ call' = NoCall
  /\ UNCHANGED <<has_report, mts_report, peer, prev, other, threads>>

----------------------------------------------------------------------------
(* The client after construction: no call made, no self.mts_report yet *)

Init ==
  /\ call = NoCall
  /\ has_report = FALSE
  /\ mts_report = <<>>
  /\ peer = <<>>
  /\ prev = NoCall
  /\ other = [has |-> FALSE, list |-> <<>>]
  /\ threads = NoThreads

Next ==
  \/ GetFabricClkFreq
  \/ GetDatatype
  \/ GetDatawidth
  \/ GetNyquistZone
  \/ SetNyquistZone
  \/ GetCoarseDelay
  \/ SetCoarseDelay
  \/ GetQmcSettings
  \/ SetQmcSettings
  \/ UpdateEvent
  \/ GetPllConfig
  \/ GetPllLockStatus
  \/ GetClkSrc
  \/ GetDsa
  \/ SetDsa
  \/ GetCalFreeze
  \/ SetCalFreeze
  \/ GetCalCoeffs
  \/ DisableUserCoeffs
  \/ GetCalMode
  \/ SetCalMode
  \/ GetOutputCurrent
  \/ SetVop
  \/ GetInvsincFir
  \/ SetInvsincFir
  \/ InvsincFirEnabled
  \/ GetImrMode
  \/ SetImrMode
  \/ DelClkFile
  \/ UpdateNcoMts
  \/ SetPllConfig
  \/ SetCalCoeffs
  \/ RunMts
  \/ RunMtsOther
  \/ GetMtsReport
  \/ ReportMixerStatus
  \/ Status
  \/ ShowClkFiles
  \/ UploadClkFile
  \/ Progpll
  \/ InitDriver
  \/ ApplyDto
  \/ GetAdcSnapshot
  \/ Resume

Spec == Init /\ [][Next]_vars
----------------------------------------------------------------------------
(* An echoing peer: it stores what a set request writes and reports the    *)
(* stored setting, formatted alike, in the inform of set and get requests. *)
(* The client's methods are the ones above; only the answers differ.       *)

EchoTargets == {<<PyInt("0"), PyInt("1")>>, <<PyInt("3"), PyInt("2")>>}
EchoConvs == {ADC_TILE}
EchoDsa == {PyInt("0"), PyFloat("1.5")}
EchoZones == {PyInt("1"), PyInt("2")}
\* enable_phase, phase_correction_factor, enable_gain, gain_correction_factor,
\* offset_correction_factor, event_source
EchoQmc ==
  { <<PyInt("0"), PyInt("0"), PyInt("0"), PyInt("0"), PyInt("0"), PyInt("0")>>,
    <<PyInt("1"), PyFloat("1.5"), PyInt("0"), PyInt("2"), PyInt("15"), PyInt("1")>> }

EchoField(nm) ==
  CASE nm \in {"rfdc-get-dsa", "rfdc-set-dsa"} -> "dsa"
    [] nm \in {"rfdc-get-nyquist-zone", "rfdc-set-nyquist-zone"} -> "nyquist-zone"
    [] nm \in {"rfdc-get-qmc-settings", "rfdc-set-qmc-settings"} -> "qmc-settings"

\* the setting a request addresses: the field and the target arguments
EchoKey(rq) ==
  [f |-> EchoField(rq.name),
   a |-> SubSeq(rq.args, 1, IF EchoField(rq.name) = "dsa" THEN 2 ELSE 3)]

EchoWrites(rq) ==
  rq.name \in {"rfdc-set-dsa", "rfdc-set-nyquist-zone", "rfdc-set-qmc-settings"}

\* the payload that reports the written values vals, in request order
EchoFormat(f, vals) ==
  CASE f = "dsa" -> <<"dsa", SP>> \o vals[1].v
    [] f = "nyquist-zone" -> <<"zone", SP>> \o vals[1].v
    [] f = "qmc-settings" ->
         <<"EnablePhase", SP>> \o vals[1].v \o <<CM, SP, "EnableGain", SP>> \o vals[2].v
           \o <<CM, SP, "GainCorrectionFactor", SP>> \o vals[3].v
           \o <<CM, SP, "PhaseCorrectionFactor", SP>> \o vals[4].v
           \o <<CM, SP, "OffsetCorrectionFactor", SP>> \o vals[5].v
           \o <<CM, SP, "EventSource", SP>> \o vals[6].v

EchoStore(p, rq) ==
  IF EchoWrites(rq)
  THEN [p EXCEPT ![EchoKey(rq)] =
          EchoFormat(EchoKey(rq).f, Drop(rq.args, Len(EchoKey(rq).a)))]
  ELSE p

EchoAnswer(p, rq) == Ok(<<EchoStore(p, rq)[EchoKey(rq)]>>)

EchoKeys ==
  {[f |-> "dsa", a |-> t] : t \in EchoTargets}
    \cup {[f |-> f, a |-> Append(t, ConvArg(c))] :
            f \in {"nyquist-zone", "qmc-settings"}, t \in EchoTargets, c \in EchoConvs}

SetDsaEcho ==
  /\ call = NoCall
  /\ \E t \in EchoTargets, atten_dB \in EchoDsa :
       LET rq == set_dsa(t[1], t[2], atten_dB, <<Fail>>).reqs[1]
           script == <<EchoAnswer(peer, rq)>>
       IN /\ call' = Called("set_dsa", <<t[1], t[2], atten_dB>>, script,
                            set_dsa(t[1], t[2], atten_dB, script))
          /\ peer' = EchoStore(peer, rq)
  /\ UNCHANGED <<has_report, mts_report, prev, other, threads>>

GetDsaEcho ==
  /\ call = NoCall
  /\ \E t \in EchoTargets :
       LET rq == get_dsa(t[1], t[2], <<Fail>>).reqs[1]
           script == <<EchoAnswer(peer, rq)>>
       IN call' = Called("get_dsa", <<t[1], t[2]>>, script, get_dsa(t[1], t[2], script))
  /\ UNCHANGED <<has_report, mts_report, peer, prev, other, threads>>

SetNyquistZoneEcho ==
  /\ call = NoCall
  /\ \E t \in EchoTargets, c \in EchoConvs, nyquist_zone \in EchoZones :
       LET rq == set_nyquist_zone(t[1], t[2], c, nyquist_zone, <<Fail>>).reqs[1]
           script == <<EchoAnswer(peer, rq)>>
       IN /\ call' = Called("set_nyquist_zone", <<t[1], t[2], c, nyquist_zone>>, script,
                            set_nyquist_zone(t[1], t[2], c, nyquist_zone, script))
          /\ peer' = EchoStore(peer, rq)
  /\ UNCHANGED <<has_report, mts_report, prev, other, threads>>

GetNyquistZoneEcho ==
  /\ call = NoCall
  /\ \E t \in EchoTargets, c \in EchoConvs :
       LET rq == get_nyquist_zone(t[1], t[2], c, <<Fail>>).reqs[1]
           script == <<EchoAnswer(peer, rq)>>
       IN call' = Called("get_nyquist_zone", <<t[1], t[2], c>>, script,
                         get_nyquist_zone(t[1], t[2], c, script))
  /\ UNCHANGED <<has_report, mts_report, peer, prev, other, threads>>

SetQmcSettingsEcho ==
  /\ call = NoCall
  /\ \E t \in EchoTargets, c \in EchoConvs, q \in EchoQmc :
       LET rq == set_qmc_settings(t[1], t[2], c, q[1], q[2], q[3], q[4], q[5], q[6],
                                  <<Fail>>).reqs[1]
           script == <<EchoAnswer(peer, rq)>>
       IN /\ call' = Called("set_qmc_settings", <<t[1], t[2], c>> \o q, script,
                            set_qmc_settings(t[1], t[2], c, q[1], q[2], q[3], q[4], q[5],
                                             q[6], script))
          /\ peer' = EchoStore(peer, rq)
  /\ UNCHANGED <<has_report, mts_report, prev, other, threads>>

GetQmcSettingsEcho ==
  /\ call = NoCall
  /\ \E t \in EchoTargets, c \in EchoConvs :
       LET rq == get_qmc_settings(t[1], t[2], c, <<Fail>>).reqs[1]
           script == <<EchoAnswer(peer, rq)>>
       IN call' = Called("get_qmc_settings", <<t[1], t[2], c>>, script,
                         get_qmc_settings(t[1], t[2], c, script))
  /\ UNCHANGED <<has_report, mts_report, peer, prev, other, threads>>

\* the caller takes the result; the call becomes the previous one
ResumeEcho ==
  /\ call # NoCall
  /\ prev' = call
  /\ call' = NoCall
  /\ UNCHANGED <<has_report, mts_report, peer, other, threads>>

\* every setting starts as the first of the values that can be written
InitEcho ==
  /\ call = NoCall
  /\ has_report = FALSE
  /\ mts_report = <<>>
  /\ prev = NoCall
  /\ other = [has |-> FALSE, list |-> <<>>]
  /\ threads = NoThreads
  /\ peer = [k \in EchoKeys |->
               EchoFormat(k.f, IF k.f = "dsa" THEN <<PyInt("0")>>
                               ELSE IF k.f = "nyquist-zone" THEN <<PyInt("1")>>
                               ELSE <<PyInt("0"), PyInt("0"), PyInt("0"), PyInt("0"),
                                      PyInt("0"), PyInt("0")>>)]

NextEcho ==
  \/ SetDsaEcho
  \/ GetDsaEcho
  \/ SetNyquistZoneEcho
  \/ GetNyquistZoneEcho
  \/ SetQmcSettingsEcho
  \/ GetQmcSettingsEcho
  \/ ResumeEcho

SpecEcho == InitEcho /\ [][NextEcho]_vars

----------------------------------------------------------------------------
(* Two threads of the caller, each calling run_mts once on the same        *)
(* instance.  A step is one statement of run_mts; self.mts_report.append(i)*)
(* is two steps, the read of the attribute and the call of append on the   *)
(* list that was read.  heap[t] is the list object thread t created, ref   *)
(* the thread whose list self.mts_report is bound to, and mts_report the   *)
(* content of that list.  With serialized the caller lets a thread enter   *)
(* run_mts only when no other thread is inside it.                         *)

\* mutant: the inform is put at the front of the list
mts_append_front(report, inform) == <<inform>> \o report

\* self.mts_report.append(i), on the list that was read
mts_append(report, inform) == Append(report, inform)

Inside(t) == threads.run[t].pc \notin {"start", "done"}

\* self.mts_report = []
MtsReset(t) ==
  /\ threads.run[t].pc = "start"
  /\ threads.serialized => \A u \in {1, 2} \ {t} : ~Inside(u)
  /\ has_report' = TRUE
  /\ mts_report' = mts_reset(mts_report)
  /\ threads' = [threads EXCEPT !.ref = t, !.heap[t] = mts_reset(mts_report),
                                !.run[t].pc = "request"]
  /\ UNCHANGED <<call, peer, prev, other>>

\* reply, informs = t.katcprequest(name='rfdc-run-mts', ...)
MtsRequest(t) ==
  /\ threads.run[t].pc = "request"
  /\ \E r \in {Fail} \cup {Ok(l) : l \in Seqs(MtsLines, MaxInforms)} :
       threads' = IF r.fail
                  THEN [threads EXCEPT !.run[t].pc = "done",
                                       !.run[t].out = Raise(KatcpRequestFail)]
                  ELSE [threads EXCEPT !.run[t].pc = "loop", !.run[t].informs = r.informs]
  /\ UNCHANGED <<call, has_report, mts_report, peer, prev, other>>

\* for i in informs: ... self.mts_report  (the attribute is read)
MtsLoad(t) ==
  /\ threads.run[t].pc = "loop"
  /\ threads.run[t].i <= Len(threads.run[t].informs)
  /\ threads' = [threads EXCEPT !.run[t].pc = "append", !.run[t].ld = threads.ref]
  /\ UNCHANGED <<call, has_report, mts_report, peer, prev, other>>

\* ... .append(i)  (on the list that was read)
MtsAppend(t) ==
  /\ threads.run[t].pc = "append"
  /\ LET ld == threads.run[t].ld
         grown == mts_append(threads.heap[ld], threads.run[t].informs[threads.run[t].i])
     IN /\ threads' = [threads EXCEPT !.heap[ld] = grown, !.run[t].pc = "loop",
                                      !.run[t].i = threads.run[t].i + 1]
        /\ mts_report' = IF ld = threads.ref THEN grown ELSE mts_report
  /\ UNCHANGED <<call, has_report, peer, prev, other>>

\* return True
MtsReturn(t) ==
  /\ threads.run[t].pc = "loop"
  /\ threads.run[t].i > Len(threads.run[t].informs)
  /\ threads' = [threads EXCEPT !.run[t].pc = "done", !.run[t].out = Return(PyBool(TRUE))]
  /\ UNCHANGED <<call, has_report, mts_report, peer, prev, other>>

InitThreads ==
  /\ call = NoCall
  /\ has_report = FALSE
  /\ mts_report = <<>>
  /\ peer = <<>>
  /\ prev = NoCall
  /\ other = [has |-> FALSE, list |-> <<>>]
  /\ \E b \in BOOLEAN : threads = [NoThreads EXCEPT !.serialized = b]

NextThreads ==
  \E t \in {1, 2} :
    \/ MtsReset(t)
    \/ MtsRequest(t)
    \/ MtsLoad(t)
    \/ MtsAppend(t)
    \/ MtsReturn(t)

SpecThreads == InitThreads /\ [][NextThreads]_vars

----------------------------------------------------------------------------
(* Vocabulary of the properties *)

\* the accessors that decode informs[0] of their one request
ExactOps == {"get_fabric_clk_freq", "get_datatype", "get_datawidth"}
ScalarOps ==
  {"get_nyquist_zone", "set_nyquist_zone", "get_cal_mode", "set_cal_mode", "get_invsinc_fir",
   "set_invsinc_fir", "invsinc_fir_enabled", "get_imr_mode", "set_imr_mode",
   "get_pll_lock_status", "get_clk_src"}
DictOps ==
  {"get_coarse_delay", "set_coarse_delay", "get_qmc_settings", "set_qmc_settings",
   "get_pll_config", "get_cal_freeze", "set_cal_freeze", "get_cal_coeffs"}
PairOps == {"get_dsa", "set_dsa", "get_output_current", "set_vop"}
\* the two that write and then read back
ReadbackOps == {"set_pll_config", "set_cal_coeffs"}
Accessors == ExactOps \cup ScalarOps \cup DictOps \cup PairOps \cup ReadbackOps

\* the type documented for the values of an accessor's result
DocType(op) ==
  CASE op \in {"get_fabric_clk_freq", "get_qmc_settings", "set_qmc_settings",
               "get_pll_config", "set_pll_config"} -> "float"
    [] op \in PairOps -> "str"
    [] OTHER -> "int"

\* the katcprequest calls among the transport calls of the last call
KatcpCalls == {i \in 1..Len(call.reqs) : call.reqs[i].via = "katcprequest"}

\* the last answer the call consumed, and its payload
Answered == call.resps # <<>> /\ ~call.resps[Len(call.resps)].fail
LastInforms == call.resps[Len(call.resps)].informs
GotPayload == Answered /\ LastInforms # <<>>
LastPayload == LastInforms[1]

DisabledSentinels == {Return(PyNone), Return(PyDict({}))}

\* payload is a ", "-separated list of "key value" pairs whose values are T
PairsOf(payload) == split(payload, <<CM, SP>>)
IsPairList(T, payload) ==
  \A i \in 1..Len(PairsOf(payload)) :
    LET kv == split(PairsOf(payload)[i], <<SP>>)
    IN Len(kv) = 2 /\ kv[1] # <<>> /\ Coerce_ok(T, kv[2])

\* the documented payload shapes of an accessor
WellFormed(op, payload) ==
  \/ payload = DISABLED
  \/ op \in ExactOps /\ Coerce_ok(DocType(op), payload)
  \/ op \in ScalarOps \cup PairOps /\ Len(PairsOf(payload)) = 1
       /\ IsPairList(DocType(op), payload)
  \/ op \in DictOps \cup ReadbackOps /\ IsPairList(DocType(op), payload)

\* the mapping a pair list stands for, with values of type T
MappingOf(T, payload) ==
  PyDict({ [k |-> split(PairsOf(payload)[i], <<SP>>)[1], t |-> T,
            v |-> Coerce(T, split(PairsOf(payload)[i], <<SP>>)[2]).v, d |-> {}] :
           i \in 1..Len(PairsOf(payload)) })
DistinctKeys(payload) ==
  \A i, j \in 1..Len(PairsOf(payload)) :
    i # j => split(PairsOf(payload)[i], <<SP>>)[1] # split(PairsOf(payload)[j], <<SP>>)[1]

----------------------------------------------------------------------------
(* C1: every accessor that takes a target address returns the disabled     *)
(* sentinel, None or an empty mapping, when the inform payload is exactly  *)
(* "(disabled)", and never raises.  The code breaks it: get_pll_lock_status*)
(* and get_clk_src index info[1] first, set_cal_coeffs unpacks the lone    *)
(* token of its readback.                                                  *)
C1_DisabledGivesSentinel ==
  (call.op \in Accessors /\ GotPayload /\ LastPayload = DISABLED)
    => call.out \in DisabledSentinels

----------------------------------------------------------------------------
(* C2 as stated: every get/set accessor issues exactly one katcprequest,   *)
(* set_pll_config and set_cal_coeffs included.                             *)
C2_ExactlyOneRequest ==
  call.op \in Accessors => Cardinality(KatcpCalls) = 1

(* C2 as amended: every get/set accessor other than set_pll_config and     *)
(* set_cal_coeffs issues exactly one katcprequest; those two issue one     *)
(* when the set request fails or yields an inform, and otherwise exactly   *)
(* two: the set request, then the matching get request.                    *)
C2_OneRequestOrReadback ==
  /\ call.op \in Accessors \ ReadbackOps
       => (Len(call.reqs) = 1 /\ KatcpCalls = {1})
  /\ call.op \in ReadbackOps
       => /\ KatcpCalls = 1..Len(call.reqs)
          /\ IF call.resps[1].fail \/ call.resps[1].informs # <<>>
             THEN Len(call.reqs) = 1
             ELSE /\ Len(call.reqs) = 2
                  /\ call.reqs[2].name =
                       (IF call.op = "set_pll_config" THEN "rfdc-get-pll-config"
                        ELSE "rfdc-get-cal-coeffs")

C2_Witness ==
  /\ call.op = "set_cal_coeffs"
  /\ Len(call.reqs) = 2
  /\ call.reqs[1].name = "rfdc-set-cal-coeffs"
  /\ call.reqs[2].name = "rfdc-get-cal-coeffs"
  /\ call.out.kind = "return"
  /\ call.out.val.d # {}

----------------------------------------------------------------------------
(* C3: a malformed inform (no inform at all, a lone token that is not      *)
(* "(disabled)", a pair with the wrong number of tokens, a value that is   *)
(* not a number where one is documented) always ends the call in an error. *)
(* The code breaks it: a length-1 split is taken for "(disabled)", and     *)
(* several accessors never coerce the value.                               *)
C3_MalformedRaises ==
  (call.op \in Accessors /\ Answered
     /\ (call.op \in ReadbackOps => Len(call.resps) = 2)
     /\ (LastInforms = <<>> \/ ~WellFormed(call.op, LastPayload)))
    => call.out.kind = "raise"

----------------------------------------------------------------------------
(* C4: when a transport call raises, the method propagates that failure:   *)
(* the failed call is the last one the method makes and the method ends    *)
(* with KatcpRequestFail, returning nothing.                               *)
C4_FailurePropagates ==
  \A i \in 1..Len(call.resps) :
    call.resps[i].fail => (i = Len(call.reqs) /\ call.out = Raise(KatcpRequestFail))

C4_Witness ==
  /\ call.op = "init"
  /\ Len(call.reqs) = 2
  /\ call.reqs[1].name = "rfdc-progpll"
  /\ call.reqs[2].name = "rfdc-progpll"
  /\ ~call.resps[1].fail
  /\ call.resps[2].fail
  /\ call.out = Raise(KatcpRequestFail)

----------------------------------------------------------------------------
(* C5: a mapping-valued get accessor given a ", "-separated list of n >= 1 *)
(* well-formed "key value" pairs returns the mapping of exactly those keys *)
(* to their values coerced to the documented type, n = 1 included.  The    *)
(* code breaks it: one pair alone is taken for "(disabled)", and           *)
(* get_cal_freeze and get_cal_coeffs leave the values as strings.          *)
C5_PairsGiveMapping ==
  (call.op \in {"get_coarse_delay", "get_qmc_settings", "get_pll_config", "get_cal_freeze",
                "get_cal_coeffs"}
     /\ GotPayload /\ LastPayload # DISABLED
     /\ IsPairList(DocType(call.op), LastPayload) /\ DistinctKeys(LastPayload))
    => call.out = Return(MappingOf(DocType(call.op), LastPayload))

----------------------------------------------------------------------------
(* C6: a set accessor decodes its response exactly as the get accessor of  *)
(* the same field does: same keys, same values, same value types.  The     *)
(* code breaks it: set_coarse_delay keeps strings where get_coarse_delay   *)
(* returns integers, and set_cal_coeffs decodes its readback without the   *)
(* length test of get_cal_coeffs.                                          *)
GetOutcome(op, as, r) ==
  CASE op = "set_nyquist_zone" -> get_nyquist_zone(as[1], as[2], as[3], <<r>>).out
    [] op = "set_coarse_delay" -> get_coarse_delay(as[1], as[2], as[3], <<r>>).out
    [] op = "set_qmc_settings" -> get_qmc_settings(as[1], as[2], as[3], <<r>>).out
    [] op = "set_pll_config" -> get_pll_config(as[1], as[2], <<r>>).out
    [] op = "set_dsa" -> get_dsa(as[1], as[2], <<r>>).out
    [] op = "set_cal_freeze" -> get_cal_freeze(as[1], as[2], <<r>>).out
    [] op = "set_cal_coeffs" -> get_cal_coeffs(as[1], as[2], as[3], <<r>>).out
    [] op = "set_cal_mode" -> get_cal_mode(as[1], as[2], <<r>>).out
    [] op = "set_invsinc_fir" -> get_invsinc_fir(as[1], as[2], <<r>>).out
    [] op = "set_imr_mode" -> get_imr_mode(as[1], as[2], <<r>>).out

C6_SetDecodesAsGet ==
  (call.op \in {"set_nyquist_zone", "set_coarse_delay", "set_qmc_settings", "set_pll_config",
                "set_dsa", "set_cal_freeze", "set_cal_coeffs", "set_cal_mode",
                "set_invsinc_fir", "set_imr_mode"}
     /\ GotPayload
     /\ (call.op \in ReadbackOps => Len(call.resps) = 2))
    => call.out = GetOutcome(call.op, call.args, call.resps[Len(call.resps)])

----------------------------------------------------------------------------
(* C7: with the echoing peer, for DSA, nyquist zone and QMC settings, a    *)
(* get that follows a set on the same target returns the same result as    *)
(* the set returned (for DSA the same attenuation string).                 *)
RoundTrips ==
  { <<"set_dsa", "get_dsa", 2>>, <<"set_nyquist_zone", "get_nyquist_zone", 3>>,
    <<"set_qmc_settings", "get_qmc_settings", 3>> }

C7_SetThenGet ==
  \A p \in RoundTrips :
    (prev.op = p[1] /\ call.op = p[2] /\ prev.out.kind = "return"
       /\ SubSeq(prev.args, 1, p[3]) = SubSeq(call.args, 1, p[3]))
      => call.out = prev.out

C7_Witness ==
  /\ prev.op = "set_dsa"
  /\ call.op = "get_dsa"
  /\ SubSeq(prev.args, 1, 2) = SubSeq(call.args, 1, 2)
  /\ prev.args[3] = PyFloat("1.5")
  /\ prev.out = Return(PyDict({[k |-> <<"dsa">>, t |-> "str", v |-> <<"1.5">>, d |-> {}]}))
  /\ call.out = prev.out

----------------------------------------------------------------------------
(* C8: the result for "(disabled)" differs from the result for any payload *)
(* of an enabled target, an empty payload included.  The code breaks it:   *)
(* every payload that splits into one element gives the disabled result.   *)
C8_DisabledIsDistinct ==
  (call.op \in Accessors /\ GotPayload /\ LastPayload # DISABLED
     /\ (call.op \in ReadbackOps => Len(call.resps) = 2)
     /\ call.out.kind = "return")
    => call.out \notin DisabledSentinels

----------------------------------------------------------------------------
(* C9 as stated: update_event, disable_user_coeffs, init, del_clk_file,    *)
(* progpll with a valid type, run_mts and update_nco_mts return True once  *)
(* the reply to their request is received without a transport error.       *)
OwnRequest(op) ==
  CASE op = "update_event" -> "rfdc-update-event"
    [] op = "disable_user_coeffs" -> "rfdc-disable-user-coeffs"
    [] op = "init" -> "rfdc-init"
    [] op = "del_clk_file" -> "delbof"
    [] op = "progpll" -> "rfdc-progpll"
    [] op = "run_mts" -> "rfdc-run-mts"
    [] op = "update_nco_mts" -> "rfdc-update-nco-mts"
    [] OTHER -> ""

ReplyReceived ==
  /\ OwnRequest(call.op) # ""
  /\ Answered
  /\ Len(call.reqs) = Len(call.resps)
  /\ call.reqs[Len(call.reqs)].name = OwnRequest(call.op)

C9_AllReturnTrue ==
  ReplyReceived => call.out = Return(PyBool(TRUE))

(* C9 as amended: init, del_clk_file, progpll with a valid type, run_mts   *)
(* and update_nco_mts return True once the reply to their request is       *)
(* received without a transport error; update_event and                    *)
(* disable_user_coeffs return None.                                        *)
C9_ReturnTrueOrNone ==
  ReplyReceived =>
    call.out = (IF call.op \in {"update_event", "disable_user_coeffs"}
                THEN Return(PyNone) ELSE Return(PyBool(TRUE)))

C9_Witness ==
  /\ call.op = "disable_user_coeffs"
  /\ ReplyReceived
  /\ call.out = Return(PyNone)

----------------------------------------------------------------------------
(* C10: after a successful run_mts, mts_report is exactly the inform       *)
(* sequence of that run, in the order received, whatever earlier runs left *)
(* in it.                                                                  *)
C10_ReportIsLastRun ==
  (call.op = "run_mts" /\ call.out = Return(PyBool(TRUE)))
    => (has_report /\ mts_report = call.resps[1].informs)

C10_Witness ==
  /\ call.op = "run_mts"
  /\ call.out = Return(PyBool(TRUE))
  /\ call.pre.has
  /\ call.pre.list # <<>>
  /\ Len(mts_report) = 2
  /\ mts_report[1] # mts_report[2]
  /\ mts_report # call.pre.list

----------------------------------------------------------------------------
(* C11: the last-run report list is changed only by run_mts: every other   *)
(* operation leaves has_report and mts_report as they were, and run_mts on *)
(* one instance leaves the report of the other instance as it was.         *)
C11_OnlyRunMtsWrites ==
  [][ /\ call'.op # "run_mts" => (mts_report' = mts_report /\ has_report' = has_report)
      /\ call'.op # "other.run_mts" => other' = other ]_vars

C11_Witness ==
  /\ call.op = "other.run_mts"
  /\ call.out = Return(PyBool(TRUE))
  /\ other.has /\ other.list # <<>>
  /\ has_report /\ mts_report # <<>>
  /\ mts_report # other.list

----------------------------------------------------------------------------
(* C12: report_mixer_status issues, for each set bit i in 0..15 of         *)
(* adc_mask, one rfdc-report-mixer request with (i div 4, i mod 4, "adc"), *)
(* in ascending i, then the same for dac_mask with "dac", and none for a   *)
(* clear bit.  A call that returns has issued exactly that sequence; a     *)
(* call ended by a transport failure has issued a prefix of it.            *)
Selected(mask) == SelectSeq([j \in 1..16 |-> j - 1], LAMBDA i : (mask \div (2 ^ i)) % 2 = 1)

MixerRequests(kind, mask) ==
  [j \in 1..Len(Selected(mask)) |->
     [via |-> "katcprequest", name |-> "rfdc-report-mixer",
      args |-> <<PyNum(Selected(mask)[j] \div 4), PyNum(Selected(mask)[j] % 4),
                 PyStr(<<kind>>)>>]]

C12_MixerCoversSelected ==
  \A adc_mask \in MixerMasks, dac_mask \in MixerMasks :
    (call.op = "report_mixer_status" /\ call.args = <<PyNum(adc_mask), PyNum(dac_mask)>>)
      => LET all == MixerRequests("adc", adc_mask) \o MixerRequests("dac", dac_mask)
         IN /\ Len(call.reqs) <= Len(all)
            /\ call.reqs = SubSeq(all, 1, Len(call.reqs))
            /\ call.out.kind = "return" => call.reqs = all

C12_Witness ==
  /\ call.op = "report_mixer_status"
  /\ call.args = <<PyNum(5), PyNum(65535)>>
  /\ call.out = Return(PyBool(TRUE))
  /\ Len(call.reqs) = 18
  /\ call.reqs[2].args = <<PyInt("0"), PyInt("2"), PyStr(<<"adc">>)>>
  /\ call.reqs[18].args = <<PyInt("3"), PyInt("3"), PyStr(<<"dac">>)>>

----------------------------------------------------------------------------
(* C13: for every accessor that takes converter_type, the converter kind   *)
(* carried by each request is "adc" when the caller designates an ADC, as  *)
(* RFDC.ADC_TILE or as the string "adc", and "dac" when the caller         *)
(* designates a DAC, as RFDC.DAC_TILE or as the string "dac".  The code    *)
(* breaks it: the string "adc" is not equal to ADC_TILE and is sent as     *)
(* "dac".                                                                  *)
TileConvOps == {"get_fabric_clk_freq", "get_pll_config", "set_pll_config", "get_pll_lock_status", "get_clk_src"}
BlockConvOps == {"get_datatype", "get_datawidth", "get_nyquist_zone", "set_nyquist_zone", "get_coarse_delay", "set_coarse_delay", "get_qmc_settings", "set_qmc_settings", "update_event"}

Designated(converter_type) ==
  IF converter_type \in {ADC_TILE, PyStr(<<"adc">>)} THEN PyStr(<<"adc">>) ELSE PyStr(<<"dac">>)

C13_ConverterKind ==
  \A pos \in {2, 3} :
    call.op \in (IF pos = 2 THEN TileConvOps ELSE BlockConvOps)
      => \A i \in 1..Len(call.reqs) : call.reqs[i].args[pos] = Designated(call.args[pos])

----------------------------------------------------------------------------
(* C14: get_qmc_settings, set_qmc_settings, get_coarse_delay and           *)
(* set_coarse_delay return None when the inform payload is "(disabled)".   *)
(* The code breaks it: all four return the empty dict they start from.     *)
C14_DisabledGivesNone ==
  (call.op \in {"get_qmc_settings", "set_qmc_settings", "get_coarse_delay", "set_coarse_delay"}
     /\ GotPayload /\ LastPayload = DISABLED)
    => call.out = Return(PyNone)

----------------------------------------------------------------------------
(* C15: get_cal_freeze, set_cal_freeze, get_cal_coeffs and set_cal_coeffs  *)
(* on an enabled target return a mapping whose values are integers.  The   *)
(* code breaks it: the four store the value token itself, a string.        *)
C15_CalValuesAreInts ==
  (call.op \in {"get_cal_freeze", "set_cal_freeze", "get_cal_coeffs", "set_cal_coeffs"}
     /\ GotPayload /\ LastPayload # DISABLED /\ IsPairList("int", LastPayload))
    => /\ call.out.kind = "return"
       /\ \A item \in call.out.val.d : item.t = "int"

----------------------------------------------------------------------------
(* C16 as stated: progpll with a plltype that is not 'lmk' or 'lmx',       *)
(* compared case-insensitively, returns False and makes no transport call; *)
(* with a valid plltype and no transport error it returns True.            *)
ValidPll == call.args[1].v[1] \in {"lmk", "LMK", "lmx", "LMX"}
NoTransportError == \A i \in 1..Len(call.resps) : ~call.resps[i].fail

----------------------------------------------------------------------------
(* C17 as stated: upload_clk_file with force_upload false and a file of    *)
(* the same base name present on the remote performs no upload and returns *)
(* True; with force_upload true it uploads without listing the remote      *)
(* files first, and returns True when the upload succeeds.  The remote     *)
(* listing is taken without repeated names.                                *)
Occurrences(l, x) == Cardinality({i \in 1..Len(l) : l[i] = x})
UploadName == basename(call.args[1].v)
UploadForced == call.args[3] = PyBool(TRUE)
Uploads == {i \in 1..Len(call.reqs) : call.reqs[i].via = "upload_to_flash"}
Listed == call.resps[1].informs

IsTxt(f) == Len(f) >= 2 /\ f[Len(f)] = "txt" /\ f[Len(f) - 1] = DOT
ListedClk == SelectSeq(Listed, IsTxt)

----------------------------------------------------------------------------
(* C18 as stated: in init the rfdc-progpll request for lmk precedes the    *)
(* one for lmx and both precede rfdc-init; a successful init issues        *)
(* rfdc-init exactly once and returns True; an init that did not complete  *)
(* returns False.                                                          *)
Named(nm) == {i \in 1..Len(call.reqs) : call.reqs[i].name = nm}
PllAt(pt) == {i \in Named("rfdc-progpll") : call.reqs[i].args[1] = PyStr(<<pt>>)}

InitOrder ==
  /\ \A i \in PllAt("lmk"), j \in PllAt("lmx") : i < j
  /\ \A i \in Named("rfdc-progpll"), j \in Named("rfdc-init") : i < j
  /\ Cardinality(Named("rfdc-init")) <= 1
  /\ call.out = Return(PyBool(TRUE))
       => /\ Named("rfdc-init") = {Len(call.reqs)}
          /\ Cardinality(PllAt("lmk")) = (IF Truthy(call.args[1]) THEN 1 ELSE 0)
          /\ Cardinality(PllAt("lmx")) = (IF Truthy(call.args[2]) THEN 1 ELSE 0)

InitCompleted == call.resps # <<>> /\ NoTransportError /\ Named("rfdc-init") # {}

----------------------------------------------------------------------------
(* C19: set_pll_config and set_cal_coeffs return an empty mapping and make *)
(* no readback request when the set request yields an inform; when it      *)
(* yields none they issue the matching get request for the same target and *)
(* return what get_pll_config / get_cal_coeffs returns for the inform of   *)
(* that request.  The code breaks it: set_cal_coeffs decodes the readback  *)
(* itself, without the length test of get_cal_coeffs.                      *)
ReadbackRequest ==
  IF call.op = "set_pll_config"
  THEN get_pll_config(call.args[1], call.args[2], <<Fail>>).reqs[1]
  ELSE get_cal_coeffs(call.args[1], call.args[2], call.args[3], <<Fail>>).reqs[1]

C19_ReadbackAsGet ==
  (call.op \in ReadbackOps /\ ~call.resps[1].fail)
    => IF call.resps[1].informs # <<>>
       THEN call.out = Return(PyDict({})) /\ Len(call.reqs) = 1
       ELSE /\ Len(call.reqs) = 2
            /\ call.reqs[2] = ReadbackRequest
            /\ ~call.resps[2].fail => call.out = GetOutcome(call.op, call.args, call.resps[2])

----------------------------------------------------------------------------
(* C20: status returns one entry per tile label of the rfdc-status informs,*)
(* keyed by the text before ": ", whose value maps every "key value" pair  *)
(* of the inform to its integer; "ADC0: Enabled 0" yields {Enabled: 0};    *)
(* when two informs carry the same label the later one wins.               *)
TileLabel(line) == split(line, <<COLON, SP>>)[1]
TileStat(line) == split(line, <<COLON, SP>>)[2]
StatusLineOk(line) ==
  Len(split(line, <<COLON, SP>>)) = 2 /\ IsPairList("int", TileStat(line))

\* the last pair of each key, its value as an integer
TileMapping(stat) ==
  LET n == Len(PairsOf(stat))
      key(i) == split(PairsOf(stat)[i], <<SP>>)[1]
      val(i) == split(PairsOf(stat)[i], <<SP>>)[2]
  IN { [k |-> key(i), t |-> "int", v |-> val(i), d |-> {}] :
         i \in {i \in 1..n : \A j \in (i + 1)..n : key(j) # key(i)} }

\* the last inform of each label
StatusOf(lines) ==
  LET n == Len(lines)
  IN PyDict({ [k |-> TileLabel(lines[i]), t |-> "dict", v |-> <<>>,
               d |-> TileMapping(TileStat(lines[i]))] :
              i \in {i \in 1..n : \A j \in (i + 1)..n :
                                   TileLabel(lines[j]) # TileLabel(lines[i])} })

----------------------------------------------------------------------------
(* C21: the request set_coarse_delay sends carries the new coarse delay    *)
(* and event source and has an operation name distinct from the one        *)
(* get_coarse_delay sends, as for every other set accessor and its get     *)
(* accessor.  The code breaks it: set_coarse_delay sends the name          *)
(* 'rfdc-get-coarse-delay'.                                                *)
GetRequestName(op, as) ==
  CASE op = "set_nyquist_zone" -> get_nyquist_zone(as[1], as[2], as[3], <<Fail>>).reqs[1].name
    [] op = "set_coarse_delay" -> get_coarse_delay(as[1], as[2], as[3], <<Fail>>).reqs[1].name
    [] op = "set_qmc_settings" -> get_qmc_settings(as[1], as[2], as[3], <<Fail>>).reqs[1].name
    [] op = "set_pll_config" -> get_pll_config(as[1], as[2], <<Fail>>).reqs[1].name
    [] op = "set_dsa" -> get_dsa(as[1], as[2], <<Fail>>).reqs[1].name
    [] op = "set_cal_freeze" -> get_cal_freeze(as[1], as[2], <<Fail>>).reqs[1].name
    [] op = "set_cal_coeffs" -> get_cal_coeffs(as[1], as[2], as[3], <<Fail>>).reqs[1].name
    [] op = "set_cal_mode" -> get_cal_mode(as[1], as[2], <<Fail>>).reqs[1].name
    [] op = "set_invsinc_fir" -> get_invsinc_fir(as[1], as[2], <<Fail>>).reqs[1].name
    [] op = "set_imr_mode" -> get_imr_mode(as[1], as[2], <<Fail>>).reqs[1].name

C21_SetRequestIsNotGet ==
  call.op \in {"set_nyquist_zone", "set_coarse_delay", "set_qmc_settings", "set_pll_config", "set_dsa", "set_cal_freeze", "set_cal_coeffs", "set_cal_mode", "set_invsinc_fir", "set_imr_mode"}
    => /\ call.reqs[1].name # GetRequestName(call.op, call.args)
       /\ call.op = "set_coarse_delay"
            => SubSeq(call.reqs[1].args, 4, 5) = SubSeq(call.args, 4, 5)

----------------------------------------------------------------------------
(* C22: in progpll with a valid plltype, when fpath is given and upload is *)
(* true, the upload of the file is the first transport call and the        *)
(* rfdc-progpll request follows it only if the upload did not fail;        *)
(* without upload the request is the only call.  The request carries       *)
(* (plltype, base name of fpath) when fpath is given and (plltype,) when   *)
(* not; at most one rfdc-progpll request is issued, exactly one by a call  *)
(* that returns.                                                           *)
ProgpllRequest ==
  katcprequest("rfdc-progpll",
               IF Truthy(call.args[2])
               THEN <<PyStr(<<lower(call.args[1].v[1])>>), PyStr(basename(call.args[2].v))>>
               ELSE <<PyStr(<<lower(call.args[1].v[1])>>)>>)

C22_UploadBeforeProgpll ==
  (call.op = "progpll" /\ ValidPll)
    => /\ Cardinality(Named("rfdc-progpll")) <= 1
       /\ call.out.kind = "return" => Cardinality(Named("rfdc-progpll")) = 1
       /\ IF Truthy(call.args[2]) /\ call.args[3] = PyBool(TRUE)
          THEN \/ call.reqs = <<>> /\ call.out = Raise("OSError")
               \/ /\ call.reqs = <<upload_to_flash(call.args[2].v, TRUE)>>
                  /\ call.resps[1].fail
                  /\ call.out = Raise(KatcpRequestFail)
               \/ /\ call.reqs = <<upload_to_flash(call.args[2].v, TRUE), ProgpllRequest>>
                  /\ ~call.resps[1].fail
          ELSE call.reqs = <<ProgpllRequest>>

C22_Witness ==
  /\ call.op = "progpll"
  /\ call.args[1] = PyStr(<<"LMX">>)
  /\ call.args[3] = PyBool(TRUE)
  /\ call.reqs = << upload_to_flash(<<"cfg", SLASH, "lmx", DOT, "txt">>, TRUE),
                    katcprequest("rfdc-progpll",
                                 <<PyStr(<<"lmx">>), PyStr(<<"lmx", DOT, "txt">>)>>) >>
  /\ call.out = Return(PyBool(TRUE))

----------------------------------------------------------------------------
(* C23: when the two run_mts calls on one instance are serialized, the     *)
(* report of a run that returned, while no later run has begun, is exactly *)
(* that run's inform sequence; when the calls interleave, a state is       *)
(* reached in which both runs have returned and mts_report equals neither  *)
(* run's inform sequence and holds informs of both.                        *)
LastRun == threads.ref

C23_SerializedRunsAreExact ==
  (threads.serialized /\ LastRun # 0 /\ threads.run[LastRun].pc = "done"
     /\ threads.run[LastRun].out = Return(PyBool(TRUE)))
    => (has_report /\ mts_report = threads.run[LastRun].informs)

C23_Witness ==
  /\ ~threads.serialized
  /\ \A t \in {1, 2} : /\ threads.run[t].pc = "done"
                       /\ threads.run[t].out = Return(PyBool(TRUE))
                       /\ threads.run[t].informs # <<>>
  /\ mts_report # threads.run[1].informs
  /\ mts_report # threads.run[2].informs
  /\ Len(mts_report) = Len(threads.run[1].informs) + Len(threads.run[2].informs)
  /\ \E i, j \in 1..Len(mts_report) :
       mts_report[i] = threads.run[1].informs[1] /\ mts_report[j] = threads.run[2].informs[1]
                                                 /\ i # j

====
